---- MODULE Spec2Model ----
(***************************************************************************)
(* Order / escrow / wallet-ledger engine of the marketplace.               *)
(*                                                                         *)
(* Money is counted in paisa (1/100 PKR), so a DecimalField with two       *)
(* decimal places is an integer.  Every service call runs in the slot of   *)
(* one request process.  A call is a sequence of steps; each step is one   *)
(* SELECT ... FOR UPDATE of the code together with the checks that follow  *)
(* it, up to the next row lock.  All writes of a transaction.atomic()      *)
(* block become visible in the step that commits; a raise inside the block *)
(* rolls the block back.  A row lock is held from the step that takes it   *)
(* until the call finishes.  The database is one that honours SELECT ...   *)
(* FOR UPDATE with row locks and aborts a transaction of a lock-wait cycle. *)
(***************************************************************************)
EXTENDS Integers, Sequences, FiniteSets, TLC

\* ------------------------------------------------------------------ bounds
MaxOrders == 1
MaxTickets == 1
MaxRequests == 1
MaxTicks == 1
MaxQty == 3
MaxPrice == 45
InitStock == 2

\* ------------------------------------------------------- program constants
PLATFORM_FEE_PERCENT == 5
AUTO_RELEASE_HOURS == 72

\* ------------------------------------------------------------- the universe
Procs == {"p1", "p2"}
Users == {"seller", "buyer", "buyer2"}
Staff == {"admin"}
Actors == Users \cup Staff
Listings == {"l1"}
ListingSeller == [l \in Listings |-> "seller"]
ListingPrice == [l \in Listings |-> 10]
DepositAmounts == {20}
AdminDepositAmounts == {0 - 10}
WithdrawAmounts == {0, 10}
TickHours == AUTO_RELEASE_HOURS
NULL == -1

is_staff(a) == a \in Staff

\* ------------------------------------------------------------------- state
VARIABLES
  wallet,     \* WalletAccount rows: user -> [available_balance, held_balance]
  ledger,     \* WalletLedgerEntry rows in insertion order
  listing,    \* Listing rows: listing -> [stock, status]
  orders,     \* Order rows in insertion order (pk = index)
  disputes,   \* Dispute rows: order pk -> row, status "none" when no row
  tickets,    \* DepositTicket rows in insertion order
  requests,   \* WithdrawalRequest rows in insertion order
  now,        \* the clock read by timezone.now()
  txn,        \* the call each request process is executing
  scn         \* the scenario explored: who calls what, from which state

dbvars == <<wallet, ledger, listing, orders, disputes, tickets, requests>>
vars == <<wallet, ledger, listing, orders, disputes, tickets, requests, now, txn, scn>>

\* ------------------------------------------------------------ money helpers
\* _q with ROUND_DOWN in place of ROUND_HALF_UP
_q_round_down(x) == IF x >= 0 THEN x \div 100 ELSE 0 - ((0 - x) \div 100)

\* Decimal.quantize(MONEY_STEP, ROUND_HALF_UP) of a value given in 1/100 paisa
_q(x) == IF x >= 0 THEN (x + 50) \div 100 ELSE 0 - ((50 - x) \div 100)

_calc_fee(total_amount) ==
  LET fee == _q(total_amount * PLATFORM_FEE_PERCENT)
  IN IF fee < 0 THEN 0 ELSE IF fee > total_amount THEN total_amount ELSE fee

_calc_net(total_amount) == _q((total_amount - _calc_fee(total_amount)) * 100)

\* -------------------------------------------------------- the wallet ledger
\* A transaction's working copy of the rows it writes.
Work == [wallet |-> wallet, ledger |-> ledger, err |-> "none"]

\* append_wallet_entry without lines 44-45: the deltas are applied unchecked
append_wallet_entry_unchecked(d, u, entry_type, direction, amount, available_delta, held_delta, reference_type, reference_id, created_by) ==
  LET a == d.wallet[u].available_balance + available_delta
      h == d.wallet[u].held_balance + held_delta
  IN IF d.err # "none" THEN d
     ELSE [wallet |-> [d.wallet EXCEPT ![u] = [available_balance |-> a, held_balance |-> h]],
           ledger |-> Append(d.ledger,
                        [wallet |-> u, entry_type |-> entry_type, direction |-> direction,
                         amount |-> amount, available_delta |-> available_delta,
                         held_delta |-> held_delta,
                         available_balance_after |-> a, held_balance_after |-> h,
                         reference_type |-> reference_type, reference_id |-> reference_id,
                         created_by |-> created_by]),
           err |-> "none"]

\* append_wallet_entry with lines 55-56 reading the balances before the deltas
append_wallet_entry_stale_snapshot(d, u, entry_type, direction, amount, available_delta, held_delta, reference_type, reference_id, created_by) ==
  LET a == d.wallet[u].available_balance + available_delta
      h == d.wallet[u].held_balance + held_delta
  IN IF d.err # "none" THEN d
     ELSE IF a < 0 \/ h < 0 THEN [d EXCEPT !.err = "WalletError"]
     ELSE [wallet |-> [d.wallet EXCEPT ![u] = [available_balance |-> a, held_balance |-> h]],
           ledger |-> Append(d.ledger,
                        [wallet |-> u, entry_type |-> entry_type, direction |-> direction,
                         amount |-> amount, available_delta |-> available_delta,
                         held_delta |-> held_delta,
                         available_balance_after |-> d.wallet[u].available_balance,
                         held_balance_after |-> d.wallet[u].held_balance,
                         reference_type |-> reference_type, reference_id |-> reference_id,
                         created_by |-> created_by]),
           err |-> "none"]

append_wallet_entry(d, u, entry_type, direction, amount, available_delta, held_delta, reference_type, reference_id, created_by) ==
  LET a == d.wallet[u].available_balance + available_delta
      h == d.wallet[u].held_balance + held_delta
  IN IF d.err # "none" THEN d
     ELSE IF a < 0 \/ h < 0 THEN [d EXCEPT !.err = "WalletError"]
     ELSE [wallet |-> [d.wallet EXCEPT ![u] = [available_balance |-> a, held_balance |-> h]],
           ledger |-> Append(d.ledger,
                        [wallet |-> u, entry_type |-> entry_type, direction |-> direction,
                         amount |-> amount, available_delta |-> available_delta,
                         held_delta |-> held_delta,
                         available_balance_after |-> a, held_balance_after |-> h,
                         reference_type |-> reference_type, reference_id |-> reference_id,
                         created_by |-> created_by]),
           err |-> "none"]

\* ------------------------------------------------------ request processes
Idle == [op |-> "idle", pc |-> "idle", actor |-> "none", id |-> 0, arg |-> 0,
         snap |-> "none", order_ids |-> <<>>, ids |-> <<>>, count |-> 0, res |-> "none"]

Call(op, pc, actor, id, arg) ==
  [op |-> op, pc |-> pc, actor |-> actor, id |-> id, arg |-> arg,
   snap |-> "none", order_ids |-> <<>>, ids |-> <<>>, count |-> 0, res |-> "none"]

Done(t, res) == [t EXCEPT !.pc = "done", !.res = res]

\* Row locks (SELECT ... FOR UPDATE) a process holds at its position.
Holds(p) ==
  LET t == txn[p]
  IN CASE t.pc = "co_buyer"  -> {<<"listing", t.id>>}
       [] t.pc = "co_seller" -> {<<"listing", t.id>>, <<"wallet", t.actor>>}
       [] t.pc = "rel_wallet" -> {<<"order", t.id>>}
       [] t.pc = "sw_wallet" -> {<<"order", t.id>>}
       [] t.pc = "rf_seller" -> {<<"order", t.id>>}
       [] t.pc = "rf_buyer"  -> {<<"order", t.id>>, <<"wallet", orders[t.id].seller>>}
       [] t.pc = "ad_wallet" -> {<<"ticket", t.id>>}
       [] t.pc = "rw_wallet" -> {<<"request", t.id>>}
       [] t.pc = "pw_wallet" -> {<<"request", t.id>>}
       [] OTHER -> {}

\* select_for_update() without FOR UPDATE: the read never waits
Free_never_blocks(lk, p) == TRUE

Free(lk, p) == \A q \in Procs \ {p} : lk \notin Holds(q)

\* ---------------------------------------------------------------- scenarios
\* "all": one request at a time, every operation, from the empty marketplace.
\* "buy": two requests at a time buy from one listing; both buyers hold an
\*        approved deposit.
\* "settle": two requests at a time deliver, dispute, release and refund one
\*        paid order.
\* "trade": two requests at a time buy from the listing and refund its orders,
\*        starting with one paid order.
\* "sweep": two requests at a time run the auto-release sweep and refund
\*        orders, starting with two delivered orders whose hold period is over.
\* "reopen": two requests at a time save a dispute from the DisputeAdmin change
\*        form, open disputes and resolve them, starting with one order in
\*        dispute.
\* "cash": two requests at a time reserve, approve, reject and pay withdrawals
\*        of two users who each hold an approved deposit.
\* "deposit": two requests at a time approve and reject one pending deposit
\*        ticket.
OrderOps == {"mark_delivered", "confirm_delivery", "admin_release", "open_dispute",
             "refund_order", "seller_win", "buyer_refund", "sweep"}
WalletOps == {"submit_deposit", "approve_deposit", "reject_deposit", "reserve_withdrawal",
              "approve_withdrawal", "reject_withdrawal", "pay_withdrawal"}

ScnProcs == IF scn = "all" THEN {"p1"} ELSE Procs
ScnOps ==
  CASE scn = "all" -> {"create_order"} \cup OrderOps \cup WalletOps
    [] scn = "buy" -> {"create_order"}
    [] scn = "settle" -> OrderOps
    [] scn = "trade" -> {"create_order", "refund_order"}
    [] scn = "sweep" -> {"sweep", "refund_order"}
    [] scn = "cash" -> {"reserve_withdrawal", "approve_withdrawal", "reject_withdrawal",
                        "pay_withdrawal"}
    [] scn = "deposit" -> {"approve_deposit", "reject_deposit"}
    [] scn = "reopen" -> {"save_dispute", "open_dispute", "seller_win", "buyer_refund"}
    [] scn = "listing" -> {"create_order", "restock", "pause", "activate"}

\* a request process takes the next request
Starts(p, op) == txn[p].pc = "idle" /\ p \in ScnProcs /\ op \in ScnOps

\* ------------------------------------------------------------ order rows
\* create_order_from_listing: the Order row it creates
OrderRow(buyer, seller, l, price_pkr, quantity) ==
  LET total_amount == _q(price_pkr * quantity * 100)
  IN [buyer |-> buyer, seller |-> seller, listing |-> l,
      quantity |-> quantity, unit_price |-> price_pkr,
      total_amount |-> total_amount,
      platform_fee_amount |-> _calc_fee(total_amount),
      seller_net_amount |-> _calc_net(total_amount),
      status |-> "pending_delivery", delivered_at |-> NULL,
      auto_release_at |-> NULL, buyer_confirmed_at |-> NULL,
      completed_at |-> NULL]

NewOrder(buyer, l, quantity) ==
  OrderRow(buyer, ListingSeller[l], l, ListingPrice[l], quantity)

\* PaymentRows with the seller's hold credited net of the fee
PaymentRows_net_hold(d, ord, pk) ==
  append_wallet_entry(
    append_wallet_entry(d, ord.buyer, "order_payment", "debit", ord.total_amount,
                        0 - ord.total_amount, 0, "order", pk, ord.buyer),
    ord.seller, "order_sale_hold", "credit", ord.seller_net_amount,
    0, ord.seller_net_amount, "order", pk, ord.buyer)

\* create_order_from_listing: the buyer's payment and the seller's hold
PaymentRows(d, ord, pk) ==
  append_wallet_entry(
    append_wallet_entry(d, ord.buyer, "order_payment", "debit", ord.total_amount,
                        0 - ord.total_amount, 0, "order", pk, ord.buyer),
    ord.seller, "order_sale_hold", "credit", ord.total_amount,
    0, ord.total_amount, "order", pk, ord.buyer)

\* create_order_from_listing: the listing after the sale
SoldListing(row, quantity) ==
  [stock |-> row.stock - quantity,
   status |-> IF row.stock - quantity = 0 THEN "sold_out" ELSE row.status]

\* WithdrawalPaidRows debiting the available balance
WithdrawalPaidRows_from_available(d, u, amount, k, reviewer) ==
  append_wallet_entry(d, u, "withdrawal_paid", "debit", amount, 0 - amount, 0,
                      "withdrawal_request", k, reviewer)

\* pay_withdrawal: the payout debit
WithdrawalPaidRows(d, u, amount, k, reviewer) ==
  append_wallet_entry(d, u, "withdrawal_paid", "debit", amount, 0, 0 - amount,
                      "withdrawal_request", k, reviewer)

\* reject_withdrawal: the release of the reserved funds
WithdrawalReleaseRows(d, u, amount, k, reviewer) ==
  append_wallet_entry(d, u, "withdrawal_release", "transfer", amount, amount, 0 - amount,
                      "withdrawal_request", k, reviewer)

\* approve_deposit: the credit
DepositRows(d, u, amount, k, reviewer) ==
  append_wallet_entry(d, u, "deposit_credit", "credit", amount, amount, 0,
                      "deposit_ticket", k, reviewer)

\* -------------------------------------------------------------------- Init
NoDispute == [status |-> "none", resolution_note |-> "", resolved_by |-> "none", resolved_at |-> NULL]

Empty == [wallet |-> [u \in Users |-> [available_balance |-> 0, held_balance |-> 0]],
          ledger |-> <<>>, err |-> "none"]

\* both buyers hold an approved deposit
Funded == DepositRows(DepositRows(Empty, "buyer", 20, 1, "admin"), "buyer2", 10, 2, "admin")

\* the buyer holds an approved deposit and has paid for one unit of l1
Paid == PaymentRows(DepositRows(Empty, "buyer", 20, 1, "admin"), NewOrder("buyer", "l1", 1), 1)

OrderIds == 1..(MaxOrders + InitStock)
TicketIds == 1..(MaxTickets + 1)
RequestIds == 1..(MaxRequests + 1)

InitCommon ==
  /\ disputes = [o \in OrderIds |-> NoDispute]
  /\ requests = <<>>
  /\ now = 0
  /\ txn = [p \in Procs |-> Idle]

\* the empty marketplace: users with empty wallets and one active listing
InitAll ==
  /\ scn = "all"
  /\ wallet = Empty.wallet
  /\ ledger = Empty.ledger
  /\ listing = [l \in Listings |-> [stock |-> InitStock, status |-> "active"]]
  /\ orders = <<>>
  /\ tickets = <<>>
  /\ InitCommon

InitBuy ==
  /\ scn = "buy"
  /\ wallet = Funded.wallet
  /\ ledger = Funded.ledger
  /\ listing = [l \in Listings |-> [stock |-> InitStock, status |-> "active"]]
  /\ orders = <<>>
  /\ tickets = <<[user |-> "buyer", amount |-> 20, status |-> "approved"],
                 [user |-> "buyer2", amount |-> 10, status |-> "approved"]>>
  /\ InitCommon

\* the seller manages the listing while funded buyers buy from it
InitListing ==
  /\ scn = "listing"
  /\ wallet = Funded.wallet
  /\ ledger = Funded.ledger
  /\ listing = [l \in Listings |-> [stock |-> InitStock, status |-> "active"]]
  /\ orders = <<>>
  /\ tickets = <<[user |-> "buyer", amount |-> 20, status |-> "approved"],
                 [user |-> "buyer2", amount |-> 10, status |-> "approved"]>>
  /\ InitCommon

InitSettle ==
  /\ scn = "settle"
  /\ wallet = Paid.wallet
  /\ ledger = Paid.ledger
  /\ listing = [l \in Listings |-> SoldListing([stock |-> InitStock, status |-> "active"], 1)]
  /\ orders = <<NewOrder("buyer", "l1", 1)>>
  /\ tickets = <<[user |-> "buyer", amount |-> 20, status |-> "approved"]>>
  /\ InitCommon

InitTrade ==
  /\ scn = "trade"
  /\ wallet = Paid.wallet
  /\ ledger = Paid.ledger
  /\ listing = [l \in Listings |-> SoldListing([stock |-> InitStock, status |-> "active"], 1)]
  /\ orders = <<NewOrder("buyer", "l1", 1)>>
  /\ tickets = <<[user |-> "buyer", amount |-> 20, status |-> "approved"]>>
  /\ InitCommon

\* the buyer has paid for two single units of l1
Paid2 == PaymentRows(Paid, NewOrder("buyer", "l1", 1), 2)

\* an order marked delivered at time 0
Delivered(ord) == [ord EXCEPT !.status = "delivered", !.delivered_at = 0,
                              !.auto_release_at = AUTO_RELEASE_HOURS]

InitSweep ==
  /\ scn = "sweep"
  /\ wallet = Paid2.wallet
  /\ ledger = Paid2.ledger
  /\ listing = [l \in Listings |->
                  SoldListing(SoldListing([stock |-> InitStock, status |-> "active"], 1), 1)]
  /\ orders = <<Delivered(NewOrder("buyer", "l1", 1)), Delivered(NewOrder("buyer", "l1", 1))>>
  /\ tickets = <<[user |-> "buyer", amount |-> 20, status |-> "approved"]>>
  /\ disputes = [o \in OrderIds |-> NoDispute]
  /\ requests = <<>>
  /\ now = AUTO_RELEASE_HOURS
  /\ txn = [p \in Procs |-> Idle]

\* the buyer opened a dispute on the delivered order
InitReopen ==
  /\ scn = "reopen"
  /\ wallet = Paid.wallet
  /\ ledger = Paid.ledger
  /\ listing = [l \in Listings |-> SoldListing([stock |-> InitStock, status |-> "active"], 1)]
  /\ orders = <<[Delivered(NewOrder("buyer", "l1", 1)) EXCEPT !.status = "disputed"]>>
  /\ tickets = <<[user |-> "buyer", amount |-> 20, status |-> "approved"]>>
  /\ disputes = [o \in OrderIds |-> IF o = 1 THEN [NoDispute EXCEPT !.status = "open"]
                                     ELSE NoDispute]
  /\ requests = <<>>
  /\ now = 0
  /\ txn = [p \in Procs |-> Idle]

InitCash ==
  /\ scn = "cash"
  /\ wallet = Funded.wallet
  /\ ledger = Funded.ledger
  /\ listing = [l \in Listings |-> [stock |-> InitStock, status |-> "active"]]
  /\ orders = <<>>
  /\ tickets = <<[user |-> "buyer", amount |-> 20, status |-> "approved"],
                 [user |-> "buyer2", amount |-> 10, status |-> "approved"]>>
  /\ InitCommon

\* a user has submitted a deposit ticket
InitDeposit ==
  /\ scn = "deposit"
  /\ wallet = Empty.wallet
  /\ ledger = Empty.ledger
  /\ listing = [l \in Listings |-> [stock |-> InitStock, status |-> "active"]]
  /\ orders = <<>>
  /\ \E a \in DepositAmounts :
       tickets = <<[user |-> "buyer", amount |-> a, status |-> "pending"]>>
  /\ InitCommon

Init ==
  \/ InitAll \/ InitBuy \/ InitSettle \/ InitTrade \/ InitSweep \/ InitReopen \/ InitCash
  \/ InitDeposit \/ InitListing

OrderCap == IF scn = "all" THEN MaxOrders ELSE InitStock

RequestCap == IF scn = "cash" THEN MaxRequests + 1 ELSE MaxRequests

\* ------------------------------------------------------------ order engine
InFlightCreates(p) ==
  Cardinality({q \in Procs \ {p} : txn[q].pc \in {"co_buyer", "co_seller"}})

\* listing_purchasable without the own-listing check
listing_purchasable_own_listing(l, buyer, quantity) ==
  /\ listing[l].status = "active"
  /\ listing[l].stock >= quantity

\* create_order_from_listing: the checks made under the listing lock
listing_purchasable(l, buyer, quantity) ==
  /\ listing[l].status = "active"
  /\ listing[l].stock >= quantity
  /\ ListingSeller[l] # buyer

\* create_order_from_listing: quantity check, listing lock and listing checks
create_order_lock_listing(p, buyer, l, quantity) ==
  /\ Starts(p, "create_order")
  /\ LET t == Call("create_order", "co_buyer", buyer, l, quantity)
     IN IF quantity < 1
        THEN txn' = [txn EXCEPT ![p] = Done(t, "OrderError")]
        ELSE /\ Free(<<"listing", l>>, p)
             /\ IF ~listing_purchasable(l, buyer, quantity)
                THEN txn' = [txn EXCEPT ![p] = Done(t, "OrderError")]
                ELSE /\ Len(orders) + InFlightCreates(p) < OrderCap
                     /\ txn' = [txn EXCEPT ![p] = t]
  /\ UNCHANGED <<dbvars, now, scn>>

\* create_order_from_listing: buyer wallet lock and balance check
create_order_lock_buyer(p) ==
  /\ txn[p].pc = "co_buyer"
  /\ Free(<<"wallet", txn[p].actor>>, p)
  /\ LET total_amount == NewOrder(txn[p].actor, txn[p].id, txn[p].arg).total_amount
     IN IF wallet[txn[p].actor].available_balance < total_amount
        THEN txn' = [txn EXCEPT ![p] = Done(@, "WalletError")]
        ELSE txn' = [txn EXCEPT ![p].pc = "co_seller"]
  /\ UNCHANGED <<dbvars, now, scn>>

\* create_order_from_listing: seller wallet lock, the writes and the commit
create_order_commit(p) ==
  /\ txn[p].pc = "co_seller"
  /\ Free(<<"wallet", ListingSeller[txn[p].id]>>, p)
  /\ LET t == txn[p]
         ord == NewOrder(t.actor, t.id, t.arg)
         d == PaymentRows(Work, ord, Len(orders) + 1)
     IN IF d.err # "none"
        THEN /\ txn' = [txn EXCEPT ![p] = Done(t, d.err)]
             /\ UNCHANGED <<wallet, ledger, orders, listing>>
        ELSE /\ wallet' = d.wallet
             /\ ledger' = d.ledger
             /\ orders' = Append(orders, ord)
             /\ listing' = [listing EXCEPT ![t.id] = SoldListing(@, t.arg)]
             /\ txn' = [txn EXCEPT ![p] = Done(t, "ok")]
  /\ UNCHANGED <<disputes, tickets, requests, now, scn>>

\* mark_delivered_allowed without the seller check
mark_delivered_allowed_any_actor(actor, o) == orders[o].status = "pending_delivery"

\* mark_delivered_allowed without the status check
mark_delivered_allowed_any_status(actor, o) == actor = orders[o].seller

\* mark_order_delivered: the checks made under the order lock
mark_delivered_allowed(actor, o) ==
  /\ actor = orders[o].seller
  /\ orders[o].status = "pending_delivery"

\* mark_order_delivered
mark_order_delivered(p, actor, o) ==
  /\ Starts(p, "mark_delivered")
  /\ o \in 1..Len(orders)
  /\ Free(<<"order", o>>, p)
  /\ LET t == Call("mark_delivered", "idle", actor, o, 0)
     IN IF ~mark_delivered_allowed(actor, o)
        THEN /\ txn' = [txn EXCEPT ![p] = Done(t, "OrderError")]
             /\ UNCHANGED orders
        ELSE /\ orders' = [orders EXCEPT ![o].status = "delivered",
                                         ![o].delivered_at = now,
                                         ![o].auto_release_at = now + AUTO_RELEASE_HOURS]
             /\ txn' = [txn EXCEPT ![p] = Done(t, "ok")]
  /\ UNCHANGED <<wallet, ledger, listing, disputes, tickets, requests, now, scn>>


\* ReleaseRows without the fee capture entry
ReleaseRows_no_fee_capture(o, actor, by_auto, resolution_note) ==
  LET ord == orders[o]
      d1 == append_wallet_entry(Work, ord.seller, "order_sale_release", "transfer",
                                ord.seller_net_amount, ord.seller_net_amount,
                                0 - ord.seller_net_amount, "order", o, actor)
  IN [err |-> d1.err, wallet |-> d1.wallet, ledger |-> d1.ledger,
      orders |-> [orders EXCEPT ![o].status = "completed",
                                ![o].completed_at = now,
                                ![o].buyer_confirmed_at =
                                   IF ~by_auto /\ actor # "none" /\ actor = ord.buyer
                                   THEN now ELSE @],
      disputes |-> IF disputes[o].status = "open"
                   THEN [disputes EXCEPT ![o] =
                           [status |-> "resolved",
                            resolution_note |-> IF resolution_note # "" THEN resolution_note
                                                ELSE "Resolved in seller favor.",
                            resolved_by |-> IF actor # "none" /\ is_staff(actor) THEN actor ELSE "none",
                            resolved_at |-> now]]
                   ELSE disputes]

\* ReleaseRows with the order saved without its new status
ReleaseRows_keeps_status(o, actor, by_auto, resolution_note) ==
  LET ord == orders[o]
      d1 == append_wallet_entry(Work, ord.seller, "order_sale_release", "transfer",
                                ord.seller_net_amount, ord.seller_net_amount,
                                0 - ord.seller_net_amount, "order", o, actor)
      d2 == IF ord.platform_fee_amount > 0
            THEN append_wallet_entry(d1, ord.seller, "order_fee_capture", "debit",
                                     ord.platform_fee_amount, 0, 0 - ord.platform_fee_amount,
                                     "order", o, actor)
            ELSE d1
  IN [err |-> d2.err, wallet |-> d2.wallet, ledger |-> d2.ledger,
      orders |-> [orders EXCEPT ![o].completed_at = now],
      disputes |-> disputes]

\* _release_order_funds: the rows after its writes (ledger entries, order, dispute)
ReleaseRows(o, actor, by_auto, resolution_note) ==
  LET ord == orders[o]
      d1 == append_wallet_entry(Work, ord.seller, "order_sale_release", "transfer",
                                ord.seller_net_amount, ord.seller_net_amount,
                                0 - ord.seller_net_amount, "order", o, actor)
      d2 == IF ord.platform_fee_amount > 0
            THEN append_wallet_entry(d1, ord.seller, "order_fee_capture", "debit",
                                     ord.platform_fee_amount, 0, 0 - ord.platform_fee_amount,
                                     "order", o, actor)
            ELSE d1
  IN [err |-> d2.err, wallet |-> d2.wallet, ledger |-> d2.ledger,
      orders |-> [orders EXCEPT ![o].status = "completed",
                                ![o].completed_at = now,
                                ![o].buyer_confirmed_at =
                                   IF ~by_auto /\ actor # "none" /\ actor = ord.buyer
                                   THEN now ELSE @],
      disputes |-> IF disputes[o].status = "open"
                   THEN [disputes EXCEPT ![o] =
                           [status |-> "resolved",
                            resolution_note |-> IF resolution_note # "" THEN resolution_note
                                                ELSE "Resolved in seller favor.",
                            resolved_by |-> IF actor # "none" /\ is_staff(actor) THEN actor ELSE "none",
                            resolved_at |-> now]]
                   ELSE disputes]

\* RefundRows without the release of the seller's hold
RefundRows_keeps_hold(o, actor, resolution_note) ==
  LET ord == orders[o]
      d2 == append_wallet_entry(Work, ord.buyer, "order_refund", "credit",
                                ord.total_amount, ord.total_amount, 0, "order", o, actor)
  IN [err |-> d2.err, wallet |-> d2.wallet, ledger |-> d2.ledger,
      orders |-> [orders EXCEPT ![o].status = "refunded", ![o].completed_at = now],
      disputes |-> IF disputes[o].status = "open"
                   THEN [disputes EXCEPT ![o] =
                           [status |-> "resolved",
                            resolution_note |-> IF resolution_note # "" THEN resolution_note
                                                ELSE "Resolved with buyer refund.",
                            resolved_by |-> IF actor # "none" /\ is_staff(actor) THEN actor ELSE "none",
                            resolved_at |-> now]]
                   ELSE disputes]

\* RefundRows crediting the buyer with seller_net_amount: the fee is kept
RefundRows_less_fee(o, actor, resolution_note) ==
  LET ord == orders[o]
      d1 == append_wallet_entry(Work, ord.seller, "order_refund", "transfer",
                                ord.total_amount, 0, 0 - ord.total_amount, "order", o, actor)
      d2 == append_wallet_entry(d1, ord.buyer, "order_refund", "credit",
                                ord.seller_net_amount, ord.seller_net_amount, 0, "order", o, actor)
  IN [err |-> d2.err, wallet |-> d2.wallet, ledger |-> d2.ledger,
      orders |-> [orders EXCEPT ![o].status = "refunded", ![o].completed_at = now],
      disputes |-> IF disputes[o].status = "open"
                   THEN [disputes EXCEPT ![o] =
                           [status |-> "resolved",
                            resolution_note |-> IF resolution_note # "" THEN resolution_note
                                                ELSE "Resolved with buyer refund.",
                            resolved_by |-> IF actor # "none" /\ is_staff(actor) THEN actor ELSE "none",
                            resolved_at |-> now]]
                   ELSE disputes]

\* RefundRows marking the order CANCELLED
RefundRows_cancels(o, actor, resolution_note) ==
  LET ord == orders[o]
      d1 == append_wallet_entry(Work, ord.seller, "order_refund", "transfer",
                                ord.total_amount, 0, 0 - ord.total_amount, "order", o, actor)
      d2 == append_wallet_entry(d1, ord.buyer, "order_refund", "credit",
                                ord.total_amount, ord.total_amount, 0, "order", o, actor)
  IN [err |-> d2.err, wallet |-> d2.wallet, ledger |-> d2.ledger,
      orders |-> [orders EXCEPT ![o].status = "cancelled", ![o].completed_at = now],
      disputes |-> IF disputes[o].status = "open"
                   THEN [disputes EXCEPT ![o] =
                           [status |-> "resolved",
                            resolution_note |-> IF resolution_note # "" THEN resolution_note
                                                ELSE "Resolved with buyer refund.",
                            resolved_by |-> IF actor # "none" /\ is_staff(actor) THEN actor ELSE "none",
                            resolved_at |-> now]]
                   ELSE disputes]

\* RefundRows crediting the refund to a user who is not a party of the order
RefundRows_credits_stranger(o, actor, resolution_note) ==
  LET ord == orders[o]
      d1 == append_wallet_entry(Work, ord.seller, "order_refund", "transfer",
                                ord.total_amount, 0, 0 - ord.total_amount, "order", o, actor)
      d2 == append_wallet_entry(d1, CHOOSE u \in Users : u \notin {ord.buyer, ord.seller}, "order_refund", "credit",
                                ord.total_amount, ord.total_amount, 0, "order", o, actor)
  IN [err |-> d2.err, wallet |-> d2.wallet, ledger |-> d2.ledger,
      orders |-> [orders EXCEPT ![o].status = "refunded", ![o].completed_at = now],
      disputes |-> IF disputes[o].status = "open"
                   THEN [disputes EXCEPT ![o] =
                           [status |-> "resolved",
                            resolution_note |-> IF resolution_note # "" THEN resolution_note
                                                ELSE "Resolved with buyer refund.",
                            resolved_by |-> IF actor # "none" /\ is_staff(actor) THEN actor ELSE "none",
                            resolved_at |-> now]]
                   ELSE disputes]

\* refund_order: the rows after its writes
RefundRows(o, actor, resolution_note) ==
  LET ord == orders[o]
      d1 == append_wallet_entry(Work, ord.seller, "order_refund", "transfer",
                                ord.total_amount, 0, 0 - ord.total_amount, "order", o, actor)
      d2 == append_wallet_entry(d1, ord.buyer, "order_refund", "credit",
                                ord.total_amount, ord.total_amount, 0, "order", o, actor)
  IN [err |-> d2.err, wallet |-> d2.wallet, ledger |-> d2.ledger,
      orders |-> [orders EXCEPT ![o].status = "refunded", ![o].completed_at = now],
      disputes |-> IF disputes[o].status = "open"
                   THEN [disputes EXCEPT ![o] =
                           [status |-> "resolved",
                            resolution_note |-> IF resolution_note # "" THEN resolution_note
                                                ELSE "Resolved with buyer refund.",
                            resolved_by |-> IF actor # "none" /\ is_staff(actor) THEN actor ELSE "none",
                            resolved_at |-> now]]
                   ELSE disputes]

\* The note each caller passes as resolution_note
NoteOf(op) ==
  CASE op = "admin_release" -> "Released by admin."
    [] op = "seller_win" -> "Resolved in seller favor by admin."
    [] op = "refund_order" -> "Refunded by admin."
    [] op = "buyer_refund" -> "Resolved with buyer refund by admin."
    [] OTHER -> ""

ReleasableStatuses == {"delivered", "disputed"}
RefundableStatuses == {"pending_delivery", "delivered", "disputed"}

\* release_status_ok without the status check
release_status_ok_any(o) == TRUE

\* refund_status_ok without the status check
refund_status_ok_any(o) == TRUE

\* _release_order_funds: the status check made under the order lock
release_status_ok(o) == orders[o].status \in ReleasableStatuses

\* refund_order: the status check made under the order lock
refund_status_ok(o) == orders[o].status \in RefundableStatuses

\* _release_order_funds: order lock and status check
release_lock_order(p, t) ==
  /\ Free(<<"order", t.id>>, p)
  /\ IF ~release_status_ok(t.id)
     THEN txn' = [txn EXCEPT ![p] = Done(t, "OrderError")]
     ELSE txn' = [txn EXCEPT ![p] = [t EXCEPT !.pc = "rel_wallet"]]

\* confirm_allowed without the buyer check
confirm_allowed_any_actor(actor, o) == TRUE

\* confirm_order_delivery: the buyer check
confirm_allowed(actor, o) == actor = orders[o].buyer

\* confirm_order_delivery: buyer check on the caller's order object, then release
confirm_order_delivery(p, actor, o) ==
  /\ Starts(p, "confirm_delivery")
  /\ o \in 1..Len(orders)
  /\ LET t == Call("confirm_delivery", "idle", actor, o, 0)
     IN IF ~confirm_allowed(actor, o)
        THEN txn' = [txn EXCEPT ![p] = Done(t, "OrderError")]
        ELSE release_lock_order(p, t)
  /\ UNCHANGED <<dbvars, now, scn>>

\* release_order_by_admin
release_order_by_admin(p, reviewer, o) ==
  /\ Starts(p, "admin_release")
  /\ o \in 1..Len(orders)
  /\ release_lock_order(p, Call("admin_release", "idle", reviewer, o, 0))
  /\ UNCHANGED <<dbvars, now, scn>>

\* _release_order_funds: seller wallet lock, held check, the writes and the commit
release_commit(p) ==
  /\ txn[p].pc = "rel_wallet"
  /\ LET t == txn[p]
         ord == orders[t.id]
         r == ReleaseRows(t.id, t.actor, FALSE, NoteOf(t.op))
     IN /\ Free(<<"wallet", ord.seller>>, p)
        /\ IF wallet[ord.seller].held_balance < ord.total_amount
           THEN /\ txn' = [txn EXCEPT ![p] = Done(t, "WalletError")]
                /\ UNCHANGED <<wallet, ledger, orders, disputes>>
           ELSE IF r.err # "none"
           THEN /\ txn' = [txn EXCEPT ![p] = Done(t, r.err)]
                /\ UNCHANGED <<wallet, ledger, orders, disputes>>
           ELSE /\ wallet' = r.wallet
                /\ ledger' = r.ledger
                /\ orders' = r.orders
                /\ disputes' = r.disputes
                /\ txn' = [txn EXCEPT ![p] = Done(t, "ok")]
  /\ UNCHANGED <<listing, tickets, requests, now, scn>>

\* open_dispute_allowed without the DELIVERED check
open_dispute_allowed_any_status(actor, o) ==
  /\ actor = orders[o].buyer
  /\ disputes[o].status # "open"

\* open_dispute_allowed without the buyer check
open_dispute_allowed_any_actor(actor, o) ==
  /\ orders[o].status = "delivered"
  /\ disputes[o].status # "open"

\* open_dispute: the checks made under the order lock
open_dispute_allowed(actor, o) ==
  /\ actor = orders[o].buyer
  /\ orders[o].status = "delivered"
  /\ disputes[o].status # "open"

\* open_dispute
open_dispute(p, actor, o) ==
  /\ Starts(p, "open_dispute")
  /\ o \in 1..Len(orders)
  /\ Free(<<"order", o>>, p)
  /\ LET t == Call("open_dispute", "idle", actor, o, 0)
     IN IF ~open_dispute_allowed(actor, o)
        THEN /\ txn' = [txn EXCEPT ![p] = Done(t, "OrderError")]
             /\ UNCHANGED <<orders, disputes>>
        ELSE /\ disputes' = [disputes EXCEPT ![o] =
                   [status |-> "open", resolution_note |-> "",
                    resolved_by |-> "none", resolved_at |-> NULL]]
             /\ orders' = [orders EXCEPT ![o].status = "disputed"]
             /\ txn' = [txn EXCEPT ![p] = Done(t, "ok")]
  /\ UNCHANGED <<wallet, ledger, listing, tickets, requests, now, scn>>

\* DisputeAdmin change form, "Save": the form's status field is written to the
\* Dispute row; the order is not touched
save_dispute(p, reviewer, o, status) ==
  /\ Starts(p, "save_dispute")
  /\ o \in 1..Len(orders)
  /\ disputes[o].status # "none"
  /\ disputes' = [disputes EXCEPT ![o].status = status]
  /\ txn' = [txn EXCEPT ![p] = Done(Call("save_dispute", "idle", reviewer, o, 0), "ok")]
  /\ UNCHANGED <<wallet, ledger, listing, orders, tickets, requests, now, scn>>

\* refund_order: order lock and status check
refund_lock_order(p, t) ==
  /\ Free(<<"order", t.id>>, p)
  /\ IF ~refund_status_ok(t.id)
     THEN txn' = [txn EXCEPT ![p] = Done(t, "OrderError")]
     ELSE txn' = [txn EXCEPT ![p] = [t EXCEPT !.pc = "rf_seller"]]

\* refund_order as called by OrderAdmin.refund_selected_orders
refund_order(p, actor, o) ==
  /\ Starts(p, "refund_order")
  /\ o \in 1..Len(orders)
  /\ refund_lock_order(p, Call("refund_order", "idle", actor, o, 0))
  /\ UNCHANGED <<dbvars, now, scn>>

\* refund_order: seller wallet lock
refund_lock_seller(p) ==
  /\ txn[p].pc = "rf_seller"
  /\ Free(<<"wallet", orders[txn[p].id].seller>>, p)
  /\ txn' = [txn EXCEPT ![p].pc = "rf_buyer"]
  /\ UNCHANGED <<dbvars, now, scn>>

\* refund_commit returning the order's units to the listing's stock
refund_commit_restocks(p) ==
  /\ txn[p].pc = "rf_buyer"
  /\ LET t == txn[p]
         ord == orders[t.id]
         r == RefundRows(t.id, t.actor, NoteOf(t.op))
     IN /\ Free(<<"wallet", ord.buyer>>, p)
        /\ IF wallet[ord.seller].held_balance < ord.total_amount
           THEN /\ txn' = [txn EXCEPT ![p] = Done(t, "WalletError")]
                /\ UNCHANGED <<wallet, ledger, orders, disputes>>
           ELSE IF r.err # "none"
           THEN /\ txn' = [txn EXCEPT ![p] = Done(t, r.err)]
                /\ UNCHANGED <<wallet, ledger, orders, disputes>>
           ELSE /\ wallet' = r.wallet
                /\ ledger' = r.ledger
                /\ orders' = r.orders
                /\ disputes' = r.disputes
                /\ txn' = [txn EXCEPT ![p] = Done(t, "ok")]
  /\ listing' = IF txn'[p].res = "ok"
                THEN [listing EXCEPT ![orders[txn[p].id].listing] =
                        [stock |-> @.stock + orders[txn[p].id].quantity, status |-> "active"]]
                ELSE listing
  /\ UNCHANGED <<tickets, requests, now, scn>>

\* refund_order: buyer wallet lock, held check, the writes and the commit
refund_commit(p) ==
  /\ txn[p].pc = "rf_buyer"
  /\ LET t == txn[p]
         ord == orders[t.id]
         r == RefundRows(t.id, t.actor, NoteOf(t.op))
     IN /\ Free(<<"wallet", ord.buyer>>, p)
        /\ IF wallet[ord.seller].held_balance < ord.total_amount
           THEN /\ txn' = [txn EXCEPT ![p] = Done(t, "WalletError")]
                /\ UNCHANGED <<wallet, ledger, orders, disputes>>
           ELSE IF r.err # "none"
           THEN /\ txn' = [txn EXCEPT ![p] = Done(t, r.err)]
                /\ UNCHANGED <<wallet, ledger, orders, disputes>>
           ELSE /\ wallet' = r.wallet
                /\ ledger' = r.ledger
                /\ orders' = r.orders
                /\ disputes' = r.disputes
                /\ txn' = [txn EXCEPT ![p] = Done(t, "ok")]
  /\ UNCHANGED <<listing, tickets, requests, now, scn>>


\* DisputeAdmin: the dispute objects of the queryset are loaded, each with its
\* status at that time, before resolve_dispute_* is called on them
resolve_dispute_load(p, op, reviewer, o) ==
  /\ Starts(p, op)
  /\ o \in 1..Len(orders)
  /\ disputes[o].status # "none"
  /\ txn' = [txn EXCEPT ![p] =
        [Call(op, "rd_check", reviewer, o, 0) EXCEPT !.snap = disputes[o].status]]
  /\ UNCHANGED <<dbvars, now, scn>>

\* resolve_allowed without the check
resolve_allowed_any_status(t) == TRUE

\* resolve_dispute_*: the status check on the caller's dispute object
resolve_allowed(t) == t.snap = "open"

\* resolve_dispute_seller_win: status check on the caller's dispute object, then release
resolve_dispute_seller_win(p) ==
  /\ txn[p].pc = "rd_check"
  /\ txn[p].op = "seller_win"
  /\ IF ~resolve_allowed(txn[p])
     THEN txn' = [txn EXCEPT ![p] = Done(@, "OrderError")]
     ELSE release_lock_order(p, txn[p])
  /\ UNCHANGED <<dbvars, now, scn>>

\* resolve_dispute_buyer_refund: status check on the caller's dispute object, then refund
resolve_dispute_buyer_refund(p) ==
  /\ txn[p].pc = "rd_check"
  /\ txn[p].op = "buyer_refund"
  /\ IF ~resolve_allowed(txn[p])
     THEN txn' = [txn EXCEPT ![p] = Done(@, "OrderError")]
     ELSE refund_lock_order(p, txn[p])
  /\ UNCHANGED <<dbvars, now, scn>>

\* ------------------------------------------------- auto-release scheduler
\* IsDue without the status filter
IsDue_any_status(o, current_time) ==
  /\ orders[o].auto_release_at # NULL
  /\ orders[o].auto_release_at <= current_time

\* IsDue with auto_release_at__lt in place of auto_release_at__lte
IsDue_strict(o, current_time) ==
  /\ orders[o].status = "delivered"
  /\ orders[o].auto_release_at # NULL
  /\ orders[o].auto_release_at < current_time

\* IsDue without the auto_release_at filters
IsDue_no_deadline(o, current_time) == orders[o].status = "delivered"

IsDue(o, current_time) ==
  /\ orders[o].status = "delivered"
  /\ orders[o].auto_release_at # NULL
  /\ orders[o].auto_release_at <= current_time

\* the due order ids in Order.Meta.ordering (newest first)
RECURSIVE DueFrom(_, _)
DueFrom(o, current_time) ==
  IF o = 0 THEN <<>>
  ELSE IF IsDue(o, current_time) THEN <<o>> \o DueFrom(o - 1, current_time)
  ELSE DueFrom(o - 1, current_time)

\* process_due_auto_releases: current_time is read (kept in arg) and the due
\* order ids are queried (order_ids); ids is what the loop has still to visit
sweep_query(p) ==
  /\ Starts(p, "sweep")
  /\ txn' = [txn EXCEPT ![p] =
        [Call("sweep", "sw_loop", "none", 0, now) EXCEPT
           !.order_ids = DueFrom(Len(orders), now),
           !.ids = DueFrom(Len(orders), now)]]
  /\ UNCHANGED <<dbvars, now, scn>>

\* sweep_skip with the loop left at the first failure
sweep_skip_abort(t) == [t EXCEPT !.pc = "sw_loop", !.id = 0, !.ids = <<>>]

\* process_due_auto_releases: "except (...): continue"
sweep_skip(t) == [t EXCEPT !.pc = "sw_loop", !.id = 0, !.ids = Tail(t.ids)]

\* process_due_auto_releases: next order id, order lock and status check of the
\* release; an OrderError is caught and the loop continues; the loop's end returns
sweep_next(p) ==
  /\ txn[p].pc = "sw_loop"
  /\ LET t == txn[p]
     IN IF t.ids = <<>>
        THEN txn' = [txn EXCEPT ![p] = Done(t, "ok")]
        ELSE /\ Free(<<"order", Head(t.ids)>>, p)
             /\ IF ~release_status_ok(Head(t.ids))
                THEN txn' = [txn EXCEPT ![p] = sweep_skip(t)]
                ELSE txn' = [txn EXCEPT ![p].pc = "sw_wallet", ![p].id = Head(t.ids)]
  /\ UNCHANGED <<dbvars, now, scn>>

\* process_due_auto_releases: the rest of the release of one order (seller wallet
\* lock, held check, writes, commit); a WalletError is caught and skipped
sweep_release(p) ==
  /\ txn[p].pc = "sw_wallet"
  /\ LET t == txn[p]
         ord == orders[t.id]
         r == ReleaseRows(t.id, "none", TRUE, "")
         released == [t EXCEPT !.pc = "sw_loop", !.id = 0, !.ids = Tail(t.ids),
                               !.count = t.count + 1]
     IN /\ Free(<<"wallet", ord.seller>>, p)
        /\ IF wallet[ord.seller].held_balance < ord.total_amount \/ r.err # "none"
           THEN /\ txn' = [txn EXCEPT ![p] = sweep_skip(t)]
                /\ UNCHANGED <<wallet, ledger, orders, disputes>>
           ELSE /\ wallet' = r.wallet
                /\ ledger' = r.ledger
                /\ orders' = r.orders
                /\ disputes' = r.disputes
                /\ txn' = [txn EXCEPT ![p] = released]
  /\ UNCHANGED <<listing, tickets, requests, now, scn>>


\* ------------------------------------------------- deposits and withdrawals
\* DepositTicketCreateView.post: a user submits a deposit ticket
submit_deposit(u, amount) ==
  /\ "submit_deposit" \in ScnOps
  /\ Len(tickets) < MaxTickets
  /\ tickets' = Append(tickets, [user |-> u, amount |-> amount, status |-> "pending"])
  /\ UNCHANGED <<wallet, ledger, listing, orders, disputes, requests, now, txn, scn>>

\* DepositTicketAdmin's add form: staff enter a ticket; the amount field takes
\* any decimal
admin_add_deposit(u, amount) ==
  /\ "submit_deposit" \in ScnOps
  /\ Len(tickets) < MaxTickets
  /\ tickets' = Append(tickets, [user |-> u, amount |-> amount, status |-> "pending"])
  /\ UNCHANGED <<wallet, ledger, listing, orders, disputes, requests, now, txn, scn>>

\* deposit_pending without the check
deposit_pending_any_status(k) == TRUE

\* approve_deposit, reject_deposit: the status check made under the ticket lock
deposit_pending(k) == tickets[k].status = "pending"

\* approve_deposit: ticket lock and status check
approve_deposit_lock(p, reviewer, k) ==
  /\ Starts(p, "approve_deposit")
  /\ k \in 1..Len(tickets)
  /\ Free(<<"ticket", k>>, p)
  /\ LET t == Call("approve_deposit", "ad_wallet", reviewer, k, 0)
     IN IF ~deposit_pending(k)
        THEN txn' = [txn EXCEPT ![p] = Done(t, "WalletError")]
        ELSE txn' = [txn EXCEPT ![p] = t]
  /\ UNCHANGED <<dbvars, now, scn>>

\* approve_deposit: wallet lock, the credit and the commit
approve_deposit_commit(p) ==
  /\ txn[p].pc = "ad_wallet"
  /\ LET t == txn[p]
         k == t.id
         d == DepositRows(Work, tickets[k].user, tickets[k].amount, k, t.actor)
     IN /\ Free(<<"wallet", tickets[k].user>>, p)
        /\ IF d.err # "none"
           THEN /\ txn' = [txn EXCEPT ![p] = Done(t, d.err)]
                /\ UNCHANGED <<wallet, ledger, tickets>>
           ELSE /\ wallet' = d.wallet
                /\ ledger' = d.ledger
                /\ tickets' = [tickets EXCEPT ![k].status = "approved"]
                /\ txn' = [txn EXCEPT ![p] = Done(t, "ok")]
  /\ UNCHANGED <<listing, orders, disputes, requests, now, scn>>

\* reject_deposit
reject_deposit(p, reviewer, k) ==
  /\ Starts(p, "reject_deposit")
  /\ k \in 1..Len(tickets)
  /\ Free(<<"ticket", k>>, p)
  /\ LET t == Call("reject_deposit", "idle", reviewer, k, 0)
     IN IF ~deposit_pending(k)
        THEN /\ txn' = [txn EXCEPT ![p] = Done(t, "WalletError")]
             /\ UNCHANGED tickets
        ELSE /\ tickets' = [tickets EXCEPT ![k].status = "rejected"]
             /\ txn' = [txn EXCEPT ![p] = Done(t, "ok")]
  /\ UNCHANGED <<wallet, ledger, listing, orders, disputes, requests, now, scn>>

\* reserve_amount_ok without the check
reserve_amount_ok_any(amount) == TRUE

\* reserve_withdrawal: the amount check
reserve_amount_ok(amount) == amount > 0

\* reserve_withdrawal; payout_ok: the payout method and account fields pass validation
reserve_withdrawal(p, user, amount, payout_ok) ==
  /\ Starts(p, "reserve_withdrawal")
  /\ LET t == [Call("reserve_withdrawal", "idle", user, 0, amount) EXCEPT
                 !.snap = IF payout_ok THEN "payout_ok" ELSE "payout_invalid"]
         d == append_wallet_entry(Work, user, "withdrawal_hold", "transfer", amount,
                                  0 - amount, amount, "withdrawal_request",
                                  Len(requests) + 1, user)
     IN IF ~reserve_amount_ok(amount) \/ ~payout_ok
        THEN /\ txn' = [txn EXCEPT ![p] = Done(t, "WalletError")]
             /\ UNCHANGED <<wallet, ledger, requests>>
        ELSE /\ Free(<<"wallet", user>>, p)
             /\ IF wallet[user].available_balance < amount \/ d.err # "none"
                THEN /\ txn' = [txn EXCEPT ![p] = Done(t, "WalletError")]
                     /\ UNCHANGED <<wallet, ledger, requests>>
                ELSE /\ Len(requests) < RequestCap
                     /\ wallet' = d.wallet
                     /\ ledger' = d.ledger
                     /\ requests' = Append(requests,
                            [user |-> user, amount |-> amount, status |-> "pending"])
                     /\ txn' = [txn EXCEPT ![p] = Done([t EXCEPT !.id = Len(requests) + 1], "ok")]
  /\ UNCHANGED <<listing, orders, disputes, tickets, now, scn>>

\* approve_status_ok without the check
approve_status_ok_any(k) == TRUE

\* pay_status_ok without the check
pay_status_ok_any(k) == TRUE

\* approve_withdrawal: the status check made under the request lock
approve_status_ok(k) == requests[k].status = "pending"

\* reject_withdrawal: the status check made under the request lock
reject_status_ok(k) == requests[k].status \in {"pending", "approved"}

\* pay_withdrawal: the status check made under the request lock
pay_status_ok(k) == requests[k].status \notin {"rejected", "paid"}

\* approve_withdrawal
approve_withdrawal(p, reviewer, k) ==
  /\ Starts(p, "approve_withdrawal")
  /\ k \in 1..Len(requests)
  /\ Free(<<"request", k>>, p)
  /\ LET t == Call("approve_withdrawal", "idle", reviewer, k, 0)
     IN IF ~approve_status_ok(k)
        THEN /\ txn' = [txn EXCEPT ![p] = Done(t, "WalletError")]
             /\ UNCHANGED requests
        ELSE /\ requests' = [requests EXCEPT ![k].status = "approved"]
             /\ txn' = [txn EXCEPT ![p] = Done(t, "ok")]
  /\ UNCHANGED <<wallet, ledger, listing, orders, disputes, tickets, now, scn>>

\* reject_withdrawal: request lock and status check
reject_withdrawal_lock(p, reviewer, k) ==
  /\ Starts(p, "reject_withdrawal")
  /\ k \in 1..Len(requests)
  /\ Free(<<"request", k>>, p)
  /\ LET t == [Call("reject_withdrawal", "rw_wallet", reviewer, k, 0) EXCEPT
                 !.snap = requests[k].status]
     IN IF ~reject_status_ok(k)
        THEN txn' = [txn EXCEPT ![p] = Done(t, "WalletError")]
        ELSE txn' = [txn EXCEPT ![p] = t]
  /\ UNCHANGED <<dbvars, now, scn>>

\* reject_withdrawal: wallet lock, held check, the release and the commit
reject_withdrawal_commit(p) ==
  /\ txn[p].pc = "rw_wallet"
  /\ LET t == txn[p]
         k == t.id
         u == requests[k].user
         d == WithdrawalReleaseRows(Work, u, requests[k].amount, k, t.actor)
     IN /\ Free(<<"wallet", u>>, p)
        /\ IF wallet[u].held_balance < requests[k].amount \/ d.err # "none"
           THEN /\ txn' = [txn EXCEPT ![p] = Done(t, "WalletError")]
                /\ UNCHANGED <<wallet, ledger, requests>>
           ELSE /\ wallet' = d.wallet
                /\ ledger' = d.ledger
                /\ requests' = [requests EXCEPT ![k].status = "rejected"]
                /\ txn' = [txn EXCEPT ![p] = Done(t, "ok")]
  /\ UNCHANGED <<listing, orders, disputes, tickets, now, scn>>

\* pay_withdrawal: request lock and status check
pay_withdrawal_lock(p, reviewer, k) ==
  /\ Starts(p, "pay_withdrawal")
  /\ k \in 1..Len(requests)
  /\ Free(<<"request", k>>, p)
  /\ LET t == [Call("pay_withdrawal", "pw_wallet", reviewer, k, 0) EXCEPT
                 !.snap = requests[k].status]
     IN IF ~pay_status_ok(k)
        THEN txn' = [txn EXCEPT ![p] = Done(t, "WalletError")]
        ELSE txn' = [txn EXCEPT ![p] = t]
  /\ UNCHANGED <<dbvars, now, scn>>

\* pay_withdrawal: wallet lock, held check, the payout debit and the commit
pay_withdrawal_commit(p) ==
  /\ txn[p].pc = "pw_wallet"
  /\ LET t == txn[p]
         k == t.id
         u == requests[k].user
         d == WithdrawalPaidRows(Work, u, requests[k].amount, k, t.actor)
     IN /\ Free(<<"wallet", u>>, p)
        /\ IF wallet[u].held_balance < requests[k].amount \/ d.err # "none"
           THEN /\ txn' = [txn EXCEPT ![p] = Done(t, "WalletError")]
                /\ UNCHANGED <<wallet, ledger, requests>>
           ELSE /\ wallet' = d.wallet
                /\ ledger' = d.ledger
                /\ requests' = [requests EXCEPT ![k].status = "paid"]
                /\ txn' = [txn EXCEPT ![p] = Done(t, "ok")]
  /\ UNCHANGED <<listing, orders, disputes, tickets, now, scn>>

\* ------------------------------------------------------- the seller's listing views
\* ListingRestockView.post: the listing is read without a lock and the form
\* is validated (IntegerField(min_value=1))
ListingRestockView(p, actor, l, stock) ==
  /\ Starts(p, "restock")
  /\ LET t == Call("restock", "ls_save", actor, l, stock)
     IN IF actor # ListingSeller[l]
        THEN txn' = [txn EXCEPT ![p] = Done(t, "Http404")]
        ELSE IF stock < 1
        THEN txn' = [txn EXCEPT ![p] = Done(t, "refused")]
        ELSE txn' = [txn EXCEPT ![p] = t]
  /\ UNCHANGED <<dbvars, now, scn>>

\* ListingStatusUpdateView.post: the listing is read without a lock and the
\* action is checked against the values read
ListingStatusUpdateView(p, actor, l, action) ==
  /\ Starts(p, action)
  /\ action \in {"pause", "activate"}
  /\ LET t == Call(action, "ls_save", actor, l, 0)
         allowed == IF action = "pause"
                    THEN listing[l].status = "active"
                    ELSE listing[l].stock >= 1 /\ listing[l].status # "active"
     IN IF actor # ListingSeller[l]
        THEN txn' = [txn EXCEPT ![p] = Done(t, "Http404")]
        ELSE IF ~allowed
        THEN txn' = [txn EXCEPT ![p] = Done(t, "refused")]
        ELSE txn' = [txn EXCEPT ![p] = t]
  /\ UNCHANGED <<dbvars, now, scn>>

\* listing.save(update_fields=...) of the two views: the UPDATE waits for a
\* row lock on the listing and writes the fields the view set
listing_save(p) ==
  /\ txn[p].pc = "ls_save"
  /\ Free(<<"listing", txn[p].id>>, p)
  /\ listing' = [listing EXCEPT ![txn[p].id] =
                   CASE txn[p].op = "restock" -> [stock |-> txn[p].arg, status |-> "active"]
                     [] txn[p].op = "pause" -> [@ EXCEPT !.status = "paused"]
                     [] OTHER -> [@ EXCEPT !.status = "active"]]
  /\ txn' = [txn EXCEPT ![p] = Done(@, "ok")]
  /\ UNCHANGED <<wallet, ledger, orders, disputes, tickets, requests, now, scn>>

\* ------------------------------------------------------------ environment
\* the response is sent and the request process is free for the next request
Return(p) ==
  /\ txn[p].pc = "done"
  /\ txn' = [txn EXCEPT ![p] = Idle]
  /\ UNCHANGED <<dbvars, now, scn>>

\* time passes
Tick ==
  /\ scn \in {"all", "settle"}
  /\ now < MaxTicks * TickHours
  /\ now' = now + TickHours
  /\ UNCHANGED <<dbvars, txn, scn>>

\* The row lock a process blocks on at its position
Wants(p) ==
  LET t == txn[p]
  IN CASE t.pc = "co_buyer"  -> {<<"wallet", t.actor>>}
       [] t.pc = "co_seller" -> {<<"wallet", ListingSeller[t.id]>>}
       [] t.pc = "rel_wallet" -> {<<"wallet", orders[t.id].seller>>}
       [] t.pc = "sw_wallet" -> {<<"wallet", orders[t.id].seller>>}
       [] t.pc = "rf_seller" -> {<<"wallet", orders[t.id].seller>>}
       [] t.pc = "rf_buyer"  -> {<<"wallet", orders[t.id].buyer>>}
       [] t.pc = "ad_wallet" -> {<<"wallet", tickets[t.id].user>>}
       [] t.pc = "rw_wallet" -> {<<"wallet", requests[t.id].user>>}
       [] t.pc = "pw_wallet" -> {<<"wallet", requests[t.id].user>>}
       [] t.pc = "ls_save" -> {<<"listing", t.id>>}
       [] OTHER -> {}

WaitsFor(p, q) == p # q /\ Wants(p) \cap Holds(q) # {}

RECURSIVE Reach(_, _)
Reach(S, n) ==
  IF n = 0 THEN S
  ELSE Reach(S \cup {q \in Procs : \E r \in S : WaitsFor(r, q)}, n - 1)

InWaitCycle(p) ==
  \E q \in Procs : WaitsFor(p, q) /\ p \in Reach({q}, Cardinality(Procs))

\* The database's deadlock detector aborts a transaction of a lock-wait cycle;
\* the call ends with a database error and its locks are released
deadlock_abort(p) ==
  /\ InWaitCycle(p)
  /\ txn' = [txn EXCEPT ![p] = Done(@, "OperationalError")]
  /\ UNCHANGED <<dbvars, now, scn>>


\* ------------------------------------------------------------ specification
Next ==
  \/ \E p \in Procs, u \in Users, l \in Listings, q \in 0..MaxQty : create_order_lock_listing(p, u, l, q)
  \/ \E p \in Procs : create_order_lock_buyer(p)
  \/ \E p \in Procs : create_order_commit(p)
  \/ \E p \in Procs, a \in Users, o \in OrderIds : mark_order_delivered(p, a, o)
  \/ \E p \in Procs, a \in Users, o \in OrderIds : confirm_order_delivery(p, a, o)
  \/ \E p \in Procs, a \in Staff, o \in OrderIds : release_order_by_admin(p, a, o)
  \/ \E p \in Procs : release_commit(p)
  \/ \E p \in Procs, a \in Users, o \in OrderIds : open_dispute(p, a, o)
  \/ \E p \in Procs, a \in Staff, o \in OrderIds, st \in {"open", "resolved"} : save_dispute(p, a, o, st)
  \/ \E p \in Procs, a \in Staff, o \in OrderIds : refund_order(p, a, o)
  \/ \E p \in Procs : refund_lock_seller(p)
  \/ \E p \in Procs : refund_commit(p)
  \/ \E p \in Procs, a \in Staff, o \in OrderIds, op \in {"seller_win", "buyer_refund"} : resolve_dispute_load(p, op, a, o)
  \/ \E p \in Procs : resolve_dispute_seller_win(p)
  \/ \E p \in Procs : resolve_dispute_buyer_refund(p)
  \/ \E p \in Procs : sweep_query(p)
  \/ \E p \in Procs : sweep_next(p)
  \/ \E p \in Procs : sweep_release(p)
  \/ \E u \in Users, a \in DepositAmounts : submit_deposit(u, a)
  \/ \E u \in Users, a \in AdminDepositAmounts : admin_add_deposit(u, a)
  \/ \E p \in Procs, a \in Staff, k \in TicketIds : approve_deposit_lock(p, a, k)
  \/ \E p \in Procs : approve_deposit_commit(p)
  \/ \E p \in Procs, a \in Staff, k \in TicketIds : reject_deposit(p, a, k)
  \/ \E p \in Procs, u \in Users, a \in WithdrawAmounts, ok \in BOOLEAN : reserve_withdrawal(p, u, a, ok)
  \/ \E p \in Procs, a \in Staff, k \in RequestIds : approve_withdrawal(p, a, k)
  \/ \E p \in Procs, a \in Staff, k \in RequestIds : reject_withdrawal_lock(p, a, k)
  \/ \E p \in Procs : reject_withdrawal_commit(p)
  \/ \E p \in Procs, a \in Staff, k \in RequestIds : pay_withdrawal_lock(p, a, k)
  \/ \E p \in Procs : pay_withdrawal_commit(p)
  \/ \E p \in Procs, a \in Users, l \in Listings, stock \in 0..1 : ListingRestockView(p, a, l, stock)
  \/ \E p \in Procs, a \in Users, l \in Listings, action \in {"pause", "activate"} :
       ListingStatusUpdateView(p, a, l, action)
  \/ \E p \in Procs : listing_save(p)
  \/ \E p \in Procs : deadlock_abort(p)
  \/ \E p \in Procs : Return(p)
  \/ Tick

Spec == Init /\ [][Next]_vars

\* ------------------------------------------------- the amounts of an order
\* create_order_from_listing's arithmetic on its own: a listing of any price
\* from 0 to MaxPrice paisa (ListingForm.clean_price_pkr accepts prices above
\* zero) is bought in any quantity from 1 to MaxQty, and the Order row is
\* built.  txn[p].id holds the listing's price_pkr, txn[p].arg the quantity.
CalcProcs == {"p1"}

InitCalc ==
  /\ scn = "calc"
  /\ wallet = Empty.wallet
  /\ ledger = Empty.ledger
  /\ listing = [l \in Listings |-> [stock |-> MaxQty, status |-> "active"]]
  /\ orders = <<>>
  /\ tickets = <<>>
  /\ disputes = [o \in OrderIds |-> NoDispute]
  /\ requests = <<>>
  /\ now = 0
  /\ \E price_pkr \in 0..MaxPrice, quantity \in 1..MaxQty :
       txn = [p \in Procs |->
                IF p \in CalcProcs
                THEN Call("create_order", "calc", "buyer", price_pkr, quantity)
                ELSE Idle]

\* create_order_from_listing: total_amount, fee_amount and seller_net_amount
\* as stored in the Order row
calc_order_amounts(p) ==
  /\ txn[p].pc = "calc"
  /\ txn[p].arg >= 1
  /\ orders' = Append(orders, OrderRow(txn[p].actor, "seller", "l1", txn[p].id, txn[p].arg))
  /\ txn' = [txn EXCEPT ![p] = Done(txn[p], "ok")]
  /\ UNCHANGED <<wallet, ledger, listing, disputes, tickets, requests, now, scn>>

NextCalc == \E p \in CalcProcs : calc_order_amounts(p)

SpecCalc == InitCalc /\ [][NextCalc]_vars

\* ------------------------------------------- the order engine, scheduled fairly
\* The orders of the "settle" and "sweep" scenarios with every call that has
\* started running to its end and the scheduler starting the sweep again and
\* again.
InitSettling == InitSettle \/ InitSweep

\* a step that continues or ends the call of process p
Continue(p) ==
  \/ release_commit(p)
  \/ refund_lock_seller(p)
  \/ refund_commit(p)
  \/ resolve_dispute_seller_win(p)
  \/ resolve_dispute_buyer_refund(p)
  \/ sweep_next(p)
  \/ sweep_release(p)
  \/ Return(p)

NextSettling ==
  \/ \E p \in Procs, a \in Users, o \in OrderIds : mark_order_delivered(p, a, o)
  \/ \E p \in Procs, a \in Users, o \in OrderIds : confirm_order_delivery(p, a, o)
  \/ \E p \in Procs, a \in Staff, o \in OrderIds : release_order_by_admin(p, a, o)
  \/ \E p \in Procs, a \in Users, o \in OrderIds : open_dispute(p, a, o)
  \/ \E p \in Procs, a \in Staff, o \in OrderIds : refund_order(p, a, o)
  \/ \E p \in Procs, a \in Staff, o \in OrderIds, op \in {"seller_win", "buyer_refund"} : resolve_dispute_load(p, op, a, o)
  \/ \E p \in Procs : sweep_query(p)
  \/ \E p \in Procs : Continue(p)
  \/ Tick

SettlingSpec ==
  /\ InitSettling
  /\ [][NextSettling]_vars
  /\ \A p \in Procs : SF_vars(Continue(p))
  /\ SF_vars(\E p \in Procs : sweep_query(p))

\* ===================================================================
\* Properties
\* ===================================================================
RECURSIVE SumSeq(_, _)
SumSeq(f, n) == IF n = 0 THEN 0 ELSE f[n] + SumSeq(f, n - 1)

RECURSIVE SumSet(_, _)
SumSet(f, S) == IF S = {} THEN 0 ELSE LET x == CHOOSE y \in S : TRUE
                                      IN f[x] + SumSet(f, S \ {x})

WalletTotal == SumSet([u \in Users |-> wallet[u].available_balance + wallet[u].held_balance], Users)
ApprovedDeposits ==
  SumSeq([k \in 1..Len(tickets) |-> IF tickets[k].status = "approved" THEN tickets[k].amount ELSE 0],
         Len(tickets))
PaidWithdrawals ==
  SumSeq([k \in 1..Len(requests) |-> IF requests[k].status = "paid" THEN requests[k].amount ELSE 0],
         Len(requests))
CapturedFees ==
  SumSeq([o \in 1..Len(orders) |-> IF orders[o].status = "completed"
                                   THEN orders[o].platform_fee_amount ELSE 0],
         Len(orders))

Terminal == {"completed", "refunded", "cancelled"}

\* the call of process p has just finished with result res
Finished(p, op, res) == txn[p].pc = "done" /\ txn[p].op = op /\ txn[p].res = res

\* ---------------------------------------------------------------------
\* C1: in every reachable state every wallet has available_balance >= 0 and
\* held_balance >= 0, whatever operations ran and however they interleaved.
C1_NonNegativeBalances ==
  \A u \in Users : wallet[u].available_balance >= 0 /\ wallet[u].held_balance >= 0

\* an approval that would have pushed a balance below zero was refused
C1_Witness ==
  \E p \in Procs :
    /\ Finished(p, "approve_deposit", "WalletError")
    /\ tickets[txn[p].id].status = "pending"
    /\ wallet[tickets[txn[p].id].user].available_balance + tickets[txn[p].id].amount < 0

\* ---------------------------------------------------------------------
\* C2: the sum over all wallets of available + held equals approved deposits
\* minus paid withdrawals minus the platform fees of completed orders, in
\* every reachable state; and no step of create_order, refund_order,
\* reserve_withdrawal or reject_withdrawal changes that sum.
C2_Conserved == WalletTotal = ApprovedDeposits - PaidWithdrawals - CapturedFees

SumKeepingOps == {"create_order", "refund_order", "buyer_refund", "reserve_withdrawal",
                  "reject_withdrawal"}

C2_SumKept ==
  \A p \in Procs :
    (txn'[p] # txn[p] /\ (txn[p].op \in SumKeepingOps \/ txn'[p].op \in SumKeepingOps))
      => WalletTotal' = WalletTotal

C2_MoneyConservation == []C2_Conserved /\ [][C2_SumKept]_vars

\* fees were captured, a withdrawal was paid: the sum is below the deposits
C2_Witness ==
  /\ \E o \in 1..Len(orders) : orders[o].status = "completed" /\ orders[o].platform_fee_amount > 0
  /\ \E k \in 1..Len(requests) : requests[k].status = "paid"
  /\ WalletTotal < ApprovedDeposits

\* ---------------------------------------------------------------------
\* C3: once an order is COMPLETED, REFUNDED or CANCELLED no step changes its
\* status.
C3_TerminalAbsorbing ==
  [][\A o \in 1..Len(orders) :
       orders[o].status \in Terminal => orders'[o].status = orders[o].status]_vars

\* a refund was tried on an order in a terminal status and refused
C3_Witness ==
  \E p \in Procs :
    /\ Finished(p, "refund_order", "OrderError")
    /\ orders[txn[p].id].status \in Terminal

\* ---------------------------------------------------------------------
\* C4 as stated: every status change is PENDING_DELIVERY -> DELIVERED or
\* CANCELLED, DELIVERED -> COMPLETED or DISPUTED, DISPUTED -> COMPLETED or
\* REFUNDED.
SpecTransitions ==
  {<<"pending_delivery", "delivered">>, <<"pending_delivery", "cancelled">>,
   <<"delivered", "completed">>, <<"delivered", "disputed">>,
   <<"disputed", "completed">>, <<"disputed", "refunded">>}

C4_AsStated ==
  [][\A o \in 1..Len(orders) :
       orders'[o].status # orders[o].status
         => <<orders[o].status, orders'[o].status>> \in SpecTransitions]_vars

\* C4 amended: every status change is one of those of C4 as stated, or a refund
\* of an undisputed order: PENDING_DELIVERY -> REFUNDED or DELIVERED -> REFUNDED.
C4_Transitions ==
  [][\A o \in 1..Len(orders) :
       orders'[o].status # orders[o].status
         => <<orders[o].status, orders'[o].status>> \in
              SpecTransitions \cup {<<"pending_delivery", "refunded">>,
                                    <<"delivered", "refunded">>}]_vars

\* an order was refunded that was never delivered
C4_Witness ==
  \E o \in 1..Len(orders) :
    /\ orders[o].status = "refunded"
    /\ orders[o].delivered_at = NULL
    /\ \E p \in Procs : Finished(p, "refund_order", "ok") /\ txn[p].id = o

\* ---------------------------------------------------------------------
\* the step in which process p's create_order succeeds
CreateSucceeds(p) ==
  /\ txn[p].op = "create_order" /\ txn[p].pc # "done"
  /\ txn'[p].pc = "done" /\ txn'[p].res = "ok"

\* C5: the step in which create_order(buyer, listing, quantity) succeeds
\* decreases buyer available by price x quantity, increases seller held by the
\* same full total, decreases the listing's stock by quantity and adds one
\* order in PENDING_DELIVERY with total_amount = total; buyer held and seller
\* available stay as they were.
C5_CreateOrderEffect ==
  [][\A p \in Procs : CreateSucceeds(p) =>
       LET buyer == txn[p].actor
           l == txn[p].id
           quantity == txn[p].arg
           seller == ListingSeller[l]
           total == ListingPrice[l] * quantity
       IN /\ wallet'[buyer].available_balance = wallet[buyer].available_balance - total
          /\ wallet'[buyer].held_balance = wallet[buyer].held_balance
          /\ wallet'[seller].held_balance = wallet[seller].held_balance + total
          /\ wallet'[seller].available_balance = wallet[seller].available_balance
          /\ listing'[l].stock = listing[l].stock - quantity
          /\ Len(orders') = Len(orders) + 1
          /\ \A o \in 1..Len(orders) : orders'[o] = orders[o]
          /\ orders'[Len(orders')].status = "pending_delivery"
          /\ orders'[Len(orders')].total_amount = total
          /\ orders'[Len(orders')].buyer = buyer
          /\ orders'[Len(orders')].seller = seller
          /\ orders'[Len(orders')].quantity = quantity]_vars

\* a purchase of two units has succeeded
C5_Witness ==
  \E p \in Procs :
    /\ Finished(p, "create_order", "ok")
    /\ txn[p].arg = 2
    /\ orders[Len(orders)].buyer = txn[p].actor
    /\ orders[Len(orders)].total_amount = 2 * ListingPrice[txn[p].id]

\* ---------------------------------------------------------------------
\* C6: create_order fails when quantity < 1, the listing is not ACTIVE,
\* stock < quantity, buyer = seller or buyer available < total; every step of
\* a create_order call other than the one in which it succeeds leaves listing,
\* wallets, orders and ledger unchanged, and the succeeding step applies the
\* stock decrement, the debit, the credit, the order and both ledger entries
\* together.
C6_CreateOrderAllOrNothing ==
  [][\A p \in Procs : (txn'[p] # txn[p] /\ txn'[p].op = "create_order") =>
       LET buyer == txn'[p].actor
           l == txn'[p].id
           quantity == txn'[p].arg
           seller == ListingSeller[l]
           total == ListingPrice[l] * quantity
           invalid == \/ quantity < 1
                      \/ listing[l].status # "active"
                      \/ listing[l].stock < quantity
                      \/ buyer = seller
       IN /\ (txn[p].pc = "idle" /\ invalid)
             => (txn'[p].pc = "done" /\ txn'[p].res = "OrderError")
          /\ (txn[p].pc = "co_buyer" /\ wallet[buyer].available_balance < total)
             => (txn'[p].pc = "done" /\ txn'[p].res \in {"WalletError", "OperationalError"})
          /\ IF CreateSucceeds(p)
             THEN /\ ~invalid
                  /\ wallet[buyer].available_balance >= total
                  /\ listing'[l].stock = listing[l].stock - quantity
                  /\ wallet'[buyer].available_balance = wallet[buyer].available_balance - total
                  /\ wallet'[seller].held_balance = wallet[seller].held_balance + total
                  /\ Len(orders') = Len(orders) + 1
                  /\ Len(ledger') = Len(ledger) + 2
             ELSE UNCHANGED <<listing, wallet, orders, ledger>>]_vars

\* a purchase was refused for lack of funds
C6_Witness ==
  \E p \in Procs :
    /\ Finished(p, "create_order", "WalletError")
    /\ wallet[txn[p].actor].available_balance < ListingPrice[txn[p].id] * txn[p].arg
    /\ listing[txn[p].id].stock >= txn[p].arg

\* ---------------------------------------------------------------------
SoldQty(l) ==
  SumSeq([o \in 1..Len(orders) |-> IF orders[o].listing = l THEN orders[o].quantity ELSE 0],
         Len(orders))

\* the scenarios in which the seller does not restock the listing
NoRestock == "restock" \notin ScnOps

C7_StockAccounted ==
  \A l \in Listings :
    /\ listing[l].stock >= 0
    /\ NoRestock =>
         /\ SoldQty(l) <= InitStock
         /\ listing[l].stock = InitStock - SoldQty(l)

C7_LoserNotDebited ==
  \A p \in Procs :
    (txn'[p] # txn[p] /\ txn'[p].op = "create_order" /\ txn'[p].pc = "done" /\ txn'[p].res # "ok")
      => UNCHANGED <<wallet, listing, orders>>

\* C7: for a listing that started with stock InitStock, under any interleaving
\* of create_order calls the quantities of its orders sum to at most
\* InitStock, its stock is InitStock minus that sum and never negative, and a
\* create_order call that fails debits nobody.
C7_NoOverselling == []C7_StockAccounted /\ [][C7_LoserNotDebited]_vars

\* two buyers were after the last stock: one bought it, the other was refused
\* a single unit
C7_Witness ==
  /\ scn = "buy"
  /\ \E p, q \in Procs :
       /\ Finished(p, "create_order", "ok")
       /\ Finished(q, "create_order", "OrderError")
       /\ txn[q].arg = 1
       /\ txn[q].actor \notin {txn[p].actor, ListingSeller[txn[q].id]}
       /\ listing[txn[q].id].stock = 0
       /\ wallet[txn[q].actor] = Funded.wallet[txn[q].actor]

\* ---------------------------------------------------------------------
ReleaseCalls == {"confirm_delivery", "admin_release", "seller_win"}

C8_ReleasedIsCompleted ==
  \A p \in Procs :
    (txn[p].pc = "done" /\ txn[p].op \in ReleaseCalls /\ txn[p].res = "ok")
      => orders[txn[p].id].status = "completed"

C8_ReleaseStep ==
  /\ \A p \in Procs :
       ( \/ (txn'[p].pc = "done" /\ txn[p].pc # "done" /\ txn'[p].op \in ReleaseCalls
                /\ txn'[p].res = "ok")
         \/ (txn'[p].op = "sweep" /\ txn[p].op = "sweep" /\ txn'[p].count # txn[p].count) )
       => (orders[txn[p].id].status # "completed" /\ orders'[txn[p].id].status = "completed")
  /\ \A o \in 1..Len(orders) :
       (orders[o].status # "completed" /\ orders'[o].status = "completed") =>
         LET seller == orders[o].seller
         IN /\ wallet'[seller].held_balance = wallet[seller].held_balance - orders[o].total_amount
            /\ wallet'[seller].available_balance =
                 wallet[seller].available_balance + orders[o].seller_net_amount
            /\ \A u \in Users \ {seller} : wallet'[u] = wallet[u]

\* C8: a successful release (buyer confirmation, admin release, auto-release,
\* dispute seller-win) sets the order COMPLETED and in the same step decreases
\* seller held by total_amount and increases seller available by
\* seller_net_amount; no other wallet changes, so the fee reaches no wallet and
\* the buyer's wallet is unchanged.
C8_ReleaseEffect == []C8_ReleasedIsCompleted /\ [][C8_ReleaseStep]_vars

\* the buyer confirmed: the seller holds the net amount, the fee is gone
C8_Witness ==
  \E p \in Procs :
    /\ Finished(p, "confirm_delivery", "ok")
    /\ orders[txn[p].id].platform_fee_amount > 0
    /\ wallet[orders[txn[p].id].seller].available_balance = orders[txn[p].id].seller_net_amount
    /\ wallet[orders[txn[p].id].seller].held_balance = 0

\* ---------------------------------------------------------------------
SettleCalls == {"confirm_delivery", "admin_release", "seller_win", "buyer_refund", "refund_order"}

\* ledger entries that take order o's payment out of the seller's held balance
HeldDebits(o) ==
  {i \in 1..Len(ledger) :
     /\ ledger[i].reference_type = "order" /\ ledger[i].reference_id = o
     /\ ledger[i].entry_type \in {"order_sale_release", "order_refund"}
     /\ ledger[i].held_delta < 0}

\* what order o's entries have taken out of its seller's held balance
HeldTaken(o) ==
  SumSeq([i \in 1..Len(ledger) |->
            IF /\ ledger[i].reference_type = "order" /\ ledger[i].reference_id = o
               /\ ledger[i].wallet = orders[o].seller /\ ledger[i].held_delta < 0
            THEN 0 - ledger[i].held_delta ELSE 0],
         Len(ledger))

C9_SettledOnce ==
  \A o \in 1..Len(orders) :
    /\ Cardinality(HeldDebits(o)) <= 1
    /\ HeldTaken(o) = IF orders[o].status \in {"completed", "refunded"}
                      THEN orders[o].total_amount ELSE 0

C9_LoserFails ==
  /\ \A p \in Procs :
       (/\ txn'[p] # txn[p] /\ txn'[p].op \in SettleCalls
        /\ txn'[p].pc = "done"
        /\ orders[txn'[p].id].status \in Terminal)
       => (txn'[p].res = "OrderError" /\ UNCHANGED <<wallet, ledger, orders>>)
  /\ \A p \in Procs :
       (/\ txn[p].op = "sweep" /\ txn[p].pc = "sw_loop" /\ txn'[p] # txn[p]
        /\ txn[p].ids # <<>>
        /\ orders[Head(txn[p].ids)].status \in Terminal)
       => (/\ txn'[p].pc = "sw_loop" /\ txn'[p].count = txn[p].count
           /\ UNCHANGED <<wallet, ledger, orders>>)

\* C9: whatever confirm_delivery, release_order_by_admin, the sweep,
\* resolve_dispute_seller_win, resolve_dispute_buyer_refund and refund_order
\* calls contend for an order, at most one ledger entry takes its payment out
\* of the seller's held balance, the amount taken is total_amount exactly when
\* the order is COMPLETED or REFUNDED and nothing before, and a call that
\* reaches an order already COMPLETED or REFUNDED ends in OrderError (the sweep
\* skips it) with wallets, ledger and orders untouched.
C9_ExactlyOnce == []C9_SettledOnce /\ [][C9_LoserFails]_vars

\* two calls on one order: a release went through and the refund lost
C9_Witness ==
  /\ scn = "settle"
  /\ \E p, q \in Procs :
       /\ txn[p].pc = "done" /\ txn[p].op \in ReleaseCalls /\ txn[p].res = "ok"
       /\ Finished(q, "refund_order", "OrderError")
       /\ txn[q].id = txn[p].id
       /\ Cardinality(HeldDebits(txn[p].id)) = 1

\* ---------------------------------------------------------------------
\* the call process p starts or continues in this step is an op call on an order
\* that fails the given check
Refused(p, op, ok) ==
  (txn[p].pc = "idle" /\ txn'[p].op = op /\ ~ok)
    => (txn'[p].pc = "done" /\ txn'[p].res = "OrderError")

C10_FailureStep ==
  \A p \in Procs :
    /\ (txn'[p] # txn[p] /\ txn'[p].pc = "done" /\ txn'[p].res \in {"OrderError", "WalletError"})
         => UNCHANGED dbvars
    /\ LET actor == txn'[p].actor
           o == txn'[p].id
       IN /\ Refused(p, "mark_delivered",
                     actor = orders[o].seller /\ orders[o].status = "pending_delivery")
          /\ Refused(p, "confirm_delivery",
                     actor = orders[o].buyer /\ orders[o].status \in {"delivered", "disputed"})
          /\ Refused(p, "admin_release", orders[o].status \in {"delivered", "disputed"})
          /\ Refused(p, "open_dispute",
                     actor = orders[o].buyer /\ orders[o].status = "delivered")
          /\ Refused(p, "refund_order",
                     orders[o].status \in {"pending_delivery", "delivered", "disputed"})

\* C10: a step in which a call ends with OrderError or WalletError leaves
\* wallets, ledger, listings, orders, disputes, tickets and requests unchanged;
\* mark_delivered, confirm_delivery, admin release, open_dispute and
\* refund_order called by the wrong actor or on an order outside the eligible
\* statuses end with OrderError in the step they start.
C10_FailuresChangeNothing == [][C10_FailureStep]_vars

\* the seller marked an order delivered a second time and was refused
C10_Witness ==
  \E p \in Procs :
    /\ Finished(p, "mark_delivered", "OrderError")
    /\ txn[p].actor = orders[txn[p].id].seller
    /\ orders[txn[p].id].delivered_at # NULL

\* ---------------------------------------------------------------------
\* the orders a sweep has selected
Selected(t) == {t.order_ids[i] : i \in 1..Len(t.order_ids)}

\* a step of the sweep run by process p
SweepStep(p) == txn'[p] # txn[p] /\ txn'[p].op = "sweep"

\* C11: an order that is DISPUTED when process_due_auto_releases queries the
\* due orders is not selected, whatever its auto_release_at; a sweep changes
\* only orders it selected, and a step of a sweep that completes no order
\* changes no wallet and counts nothing.
C11_DisputeBlocksAutoRelease ==
  [][\A p \in Procs : SweepStep(p) =>
       /\ txn[p].pc = "idle" =>
            \A o \in 1..Len(orders) :
              orders[o].status = "disputed" => o \notin Selected(txn'[p])
       /\ \A o \in 1..Len(orders) :
            o \notin Selected(txn'[p]) => orders'[o] = orders[o]
       /\ (\A o \in 1..Len(orders) : orders'[o].status = orders[o].status)
            => (wallet' = wallet /\ ledger' = ledger /\ disputes' = disputes
                /\ txn'[p].count = txn[p].count)]_vars

\* one request at a time: a sweep ran over a disputed order whose
\* auto_release_at had passed and released nothing
C11_Witness ==
  /\ scn = "all"
  /\ \E p \in Procs, o \in 1..Len(orders) :
       /\ Finished(p, "sweep", "ok")
       /\ txn[p].count = 0
       /\ orders[o].status = "disputed"
       /\ disputes[o].status = "open"
       /\ orders[o].auto_release_at # NULL
       /\ orders[o].auto_release_at <= txn[p].arg
       /\ wallet[orders[o].seller].held_balance = orders[o].total_amount

\* ---------------------------------------------------------------------
\* C12: when an order the sweep selected as due is DISPUTED by the time the
\* sweep's release attempt for it runs, the attempt fails and the order is
\* skipped: it stays DISPUTED with its dispute OPEN, no wallet changes and the
\* sweep's count does not grow.
C12_DisputedIsSkipped ==
  [][\A p \in Procs : SweepStep(p) =>
       /\ (/\ txn[p].pc = "sw_loop" /\ txn[p].ids # <<>>
           /\ orders[Head(txn[p].ids)].status = "disputed")
          => (txn'[p].pc = "sw_loop" /\ txn'[p].ids = Tail(txn[p].ids))
       /\ \A o \in 1..Len(orders) :
            orders[o].status = "disputed" =>
              /\ orders'[o].status = "disputed"
              /\ disputes'[o].status = "open"
              /\ wallet' = wallet
              /\ txn'[p].count = txn[p].count]_vars

\* ---------------------------------------------------------------------
\* the orders that are DELIVERED with a non-null auto_release_at <= current_time
DueAt(current_time) ==
  {o \in 1..Len(orders) :
     /\ orders[o].status = "delivered"
     /\ orders[o].auto_release_at # NULL
     /\ orders[o].auto_release_at <= current_time}

\* the orders a step moves to COMPLETED
Completes == {o \in 1..Len(orders) : orders[o].status # "completed" /\ orders'[o].status = "completed"}

C13_NothingLeftDue ==
  \A p \in Procs : Finished(p, "sweep", "ok") => DueAt(txn[p].arg) = {}

C13_SweepStep ==
  \A p \in Procs : SweepStep(p) =>
    /\ txn[p].pc = "idle" => (txn'[p].arg = now /\ Selected(txn'[p]) = DueAt(now))
    /\ Selected(txn'[p]) = {} => (UNCHANGED dbvars /\ txn'[p].count = 0)
    /\ IF txn'[p].count # txn[p].count
       THEN /\ txn'[p].count = txn[p].count + 1
            /\ Cardinality(Completes) = 1
            /\ Completes \subseteq Selected(txn[p])
       ELSE Completes = {} /\ UNCHANGED dbvars

\* C13: when a sweep run has ended no order is left due at its current_time,
\* so a second run with the same now selects nothing, returns 0 and changes no
\* order, wallet or ledger entry; whenever a sweep counts an order, that step
\* of that sweep moved exactly that order to COMPLETED, so with sweeps running
\* one after another or concurrently each order is counted at most once.
C13_SweepRepeatable == []C13_NothingLeftDue /\ [][C13_SweepStep]_vars

\* one request at a time: a sweep released an order, and a second sweep at the
\* same now selected nothing and returned 0
C13_Witness ==
  /\ scn = "all"
  /\ \E p \in Procs, o \in 1..Len(orders), i \in 1..Len(ledger) :
       /\ Finished(p, "sweep", "ok")
       /\ txn[p].order_ids = <<>> /\ txn[p].count = 0 /\ txn[p].arg = now
       /\ orders[o].status = "completed" /\ orders[o].completed_at = now
       /\ ledger[i].entry_type = "order_sale_release" /\ ledger[i].reference_id = o
       /\ ledger[i].created_by = "none"

\* ---------------------------------------------------------------------
C14_AllVisited ==
  \A p \in Procs : Finished(p, "sweep", "ok") =>
    \A o \in Selected(txn[p]) : orders[o].status # "delivered"

C14_SweepStep ==
  \A p \in Procs : SweepStep(p) =>
    /\ txn'[p].count = txn[p].count + Cardinality(Completes)
    /\ txn'[p].order_ids = (IF txn[p].pc = "idle" THEN txn'[p].ids ELSE txn[p].order_ids)
    /\ (txn[p].pc = "sw_wallet" \/ (txn[p].pc = "sw_loop" /\ txn[p].ids # <<>>))
         => /\ txn'[p].pc \in {"sw_loop", "sw_wallet"}
            /\ txn'[p].pc = "sw_loop" => txn'[p].ids = Tail(txn[p].ids)
            /\ txn'[p].pc = "sw_wallet" => txn'[p].ids = txn[p].ids
    /\ txn'[p].pc = "done"
         => (txn[p].pc = "sw_loop" /\ txn[p].ids = <<>> /\ txn'[p].res = "ok")

\* C14: in a run of process_due_auto_releases a failed release attempt only
\* drops that order from the orders to visit, the run ends only when all
\* selected orders were visited (none of them is left DELIVERED), and the count
\* grows by one exactly in the steps in which the run moves an order to
\* COMPLETED.
C14_FailureIsPerOrder == []C14_AllVisited /\ [][C14_SweepStep]_vars

\* a sweep selected two orders; its attempt on the first failed (the order had
\* been refunded meanwhile), it released the second and returned 1
C14_Witness ==
  /\ scn = "sweep"
  /\ \E p \in Procs :
       /\ Finished(p, "sweep", "ok")
       /\ Len(txn[p].order_ids) = 2
       /\ txn[p].count = 1
       /\ orders[txn[p].order_ids[1]].status = "refunded"
       /\ orders[txn[p].order_ids[2]].status = "completed"

\* ---------------------------------------------------------------------
\* C15: an order a sweep moves to COMPLETED was not PENDING_DELIVERY, has a
\* non-null auto_release_at that is not later than the sweep's current_time
\* (itself not later than now), and was delivered at least AUTO_RELEASE_HOURS
\* before now.
C15_OnlyDueOrdersSwept ==
  [][\A p \in Procs : SweepStep(p) =>
       \A o \in Completes :
         /\ orders[o].status # "pending_delivery"
         /\ orders[o].auto_release_at # NULL
         /\ orders[o].auto_release_at <= txn[p].arg
         /\ txn[p].arg <= now
         /\ orders[o].delivered_at # NULL
         /\ orders[o].delivered_at + AUTO_RELEASE_HOURS <= now]_vars

\* a sweep ran over an order delivered less than 72 hours before and left it
\* DELIVERED
C15_Witness ==
  \E p \in Procs, o \in 1..Len(orders) :
    /\ Finished(p, "sweep", "ok")
    /\ txn[p].arg = now /\ txn[p].count = 0
    /\ orders[o].status = "delivered"
    /\ orders[o].delivered_at # NULL
    /\ now - orders[o].delivered_at < AUTO_RELEASE_HOURS
    /\ orders[o].auto_release_at > now

\* ---------------------------------------------------------------------
\* order o is DELIVERED, its hold period is over and no dispute was opened on it
DueUndisputed(o) ==
  /\ o \in 1..Len(orders)
  /\ orders[o].status = "delivered"
  /\ orders[o].auto_release_at # NULL
  /\ orders[o].auto_release_at <= now
  /\ disputes[o].status = "none"

Disputed(o) == o \in 1..Len(orders) /\ disputes[o].status # "none"

HasStatus(o, st) == o \in 1..Len(orders) /\ orders[o].status = st

\* a sweep's release leaves the wallets as the buyer's confirmation would
C16_SameAsConfirm ==
  \A p \in Procs : SweepStep(p) =>
    \A o \in Completes :
      LET seller == orders[o].seller
      IN /\ wallet' = ReleaseRows(o, orders[o].buyer, FALSE, "").wallet
         /\ wallet'[seller].held_balance = wallet[seller].held_balance - orders[o].total_amount
         /\ wallet'[seller].available_balance =
              wallet[seller].available_balance + orders[o].seller_net_amount

\* C16 as stated: with the sweep scheduled fairly, an order that is DELIVERED
\* with auto_release_at <= now and on which no dispute is opened is eventually
\* COMPLETED.
C16_AsStated ==
  \A o \in OrderIds : DueUndisputed(o) ~> (HasStatus(o, "completed") \/ Disputed(o))

\* C16 amended: with the sweep scheduled fairly, an order that is DELIVERED
\* with auto_release_at <= now, on which no dispute is opened and which is not
\* refunded by an admin, is eventually COMPLETED; when a sweep completes an
\* order the wallets are as after the buyer's confirmation: seller held minus
\* total_amount, seller available plus seller_net_amount.
C16_AutoRelease ==
  /\ \A o \in OrderIds :
       DueUndisputed(o) ~> (HasStatus(o, "completed") \/ Disputed(o) \/ HasStatus(o, "refunded"))
  /\ [][C16_SameAsConfirm]_vars

\* a sweep completed an order nobody confirmed or disputed
C16_Witness ==
  \E o \in 1..Len(orders), i \in 1..Len(ledger) :
    /\ orders[o].status = "completed"
    /\ orders[o].buyer_confirmed_at = NULL
    /\ disputes[o].status = "none"
    /\ ledger[i].entry_type = "order_sale_release" /\ ledger[i].reference_id = o
    /\ ledger[i].created_by = "none"
    /\ ledger[i].available_balance_after = orders[o].seller_net_amount

\* ---------------------------------------------------------------------
RefundCalls == {"refund_order", "buyer_refund"}

\* ledger entries of one type that refer to order o
OrderEntries(o, entry_type) ==
  {i \in 1..Len(ledger) :
     /\ ledger[i].reference_type = "order" /\ ledger[i].reference_id = o
     /\ ledger[i].entry_type = entry_type}

C17_RefundedIsRefunded ==
  \A p \in Procs :
    (txn[p].pc = "done" /\ txn[p].op \in RefundCalls /\ txn[p].res = "ok")
      => orders[txn[p].id].status = "refunded"

C17_RefundStep ==
  /\ \A p \in Procs :
       (txn'[p].pc = "done" /\ txn[p].pc # "done" /\ txn'[p].op \in RefundCalls
          /\ txn'[p].res = "ok")
       => (orders[txn[p].id].status \in RefundableStatuses
             /\ orders'[txn[p].id].status = "refunded")
  /\ \A o \in 1..Len(orders) :
       (orders[o].status # "refunded" /\ orders'[o].status = "refunded") =>
         LET seller == orders[o].seller
             buyer == orders[o].buyer
             total == orders[o].total_amount
         IN /\ wallet'[seller] = [wallet[seller] EXCEPT !.held_balance = @ - total]
            /\ wallet'[buyer] = [wallet[buyer] EXCEPT !.available_balance = @ + total]
            /\ \A u \in Users \ {seller, buyer} : wallet'[u] = wallet[u]
            /\ Len(ledger') = Len(ledger) + 2
            /\ \A i \in (Len(ledger) + 1)..Len(ledger') :
                 /\ ledger'[i].entry_type = "order_refund"
                 /\ ledger'[i].amount = total
                 /\ ledger'[i].reference_id = o
            /\ \A j \in OrderEntries(o, "order_payment") :
                 ledger[j].wallet = buyer /\ ledger[j].available_delta = 0 - total
            /\ disputes'[o].status # "open"
            /\ disputes[o].status = "open" => disputes'[o].status = "resolved"
            /\ disputes[o].status # "open" => disputes'[o] = disputes[o]

\* C17: a successful refund_order on an order in PENDING_DELIVERY, DELIVERED
\* or DISPUTED sets the order REFUNDED and in the same step decreases the
\* seller's held balance by total_amount and increases the buyer's available
\* balance by total_amount, the amount the purchase debited; it writes two
\* order_refund entries and no fee capture, and an open dispute is RESOLVED.
C17_RefundEffect == []C17_RefundedIsRefunded /\ [][C17_RefundStep]_vars

\* a dispute was resolved with a refund: the buyer's available balance is what
\* it was before the purchase
C17_Witness ==
  \E p \in Procs :
    /\ Finished(p, "buyer_refund", "ok")
    /\ disputes[txn[p].id].status = "resolved"
    /\ orders[txn[p].id].platform_fee_amount > 0
    /\ \E j \in OrderEntries(txn[p].id, "order_payment") :
         wallet[orders[txn[p].id].buyer].available_balance =
           ledger[j].available_balance_after + orders[txn[p].id].total_amount
    /\ CapturedFees = 0

\* ---------------------------------------------------------------------
\* C18: the platform fee is realized only on completion: an order_fee_capture
\* entry refers to an order that is COMPLETED, an order has at most one such
\* entry, and a REFUNDED order has none.
C18_FeeOnlyOnCompletion ==
  /\ \A i \in 1..Len(ledger) :
       ledger[i].entry_type = "order_fee_capture" =>
         /\ ledger[i].reference_type = "order"
         /\ ledger[i].reference_id \in 1..Len(orders)
         /\ orders[ledger[i].reference_id].status = "completed"
  /\ \A o \in 1..Len(orders) :
       /\ Cardinality(OrderEntries(o, "order_fee_capture")) <= 1
       /\ orders[o].status = "refunded" => OrderEntries(o, "order_fee_capture") = {}

\* one order was completed with its fee captured, another was refunded
C18_Witness ==
  \E o1, o2 \in 1..Len(orders) :
    /\ orders[o1].status = "completed"
    /\ \E i \in OrderEntries(o1, "order_fee_capture") :
         ledger[i].amount = orders[o1].platform_fee_amount /\ ledger[i].amount > 0
    /\ orders[o2].status = "refunded"
    /\ OrderEntries(o2, "order_fee_capture") = {}
    /\ OrderEntries(o2, "order_refund") # {}

\* ---------------------------------------------------------------------
\* the sum of the amounts of order o's entries of one type
EntrySum(o, entry_type) ==
  SumSeq([i \in 1..Len(ledger) |->
            IF i \in OrderEntries(o, entry_type) THEN ledger[i].amount ELSE 0],
         Len(ledger))

\* C19: every order has one order_payment entry, a debit of total_amount on
\* the buyer's available balance, and one order_sale_hold entry, a credit of
\* total_amount on the seller's held balance; once the order is released its
\* order_sale_release amount (seller_net_amount) plus its order_fee_capture
\* amount (platform_fee_amount) equals total_amount.
C19_PerOrderLedgerSums ==
  \A o \in 1..Len(orders) :
    LET ord == orders[o]
    IN /\ Cardinality(OrderEntries(o, "order_payment")) = 1
       /\ \A i \in OrderEntries(o, "order_payment") :
            /\ ledger[i].wallet = ord.buyer
            /\ ledger[i].direction = "debit"
            /\ ledger[i].amount = ord.total_amount
            /\ ledger[i].available_delta = 0 - ord.total_amount
            /\ ledger[i].held_delta = 0
       /\ Cardinality(OrderEntries(o, "order_sale_hold")) = 1
       /\ \A i \in OrderEntries(o, "order_sale_hold") :
            /\ ledger[i].wallet = ord.seller
            /\ ledger[i].direction = "credit"
            /\ ledger[i].amount = ord.total_amount
            /\ ledger[i].held_delta = ord.total_amount
            /\ ledger[i].available_delta = 0
       /\ EntrySum(o, "order_payment") = ord.total_amount
       /\ EntrySum(o, "order_sale_hold") = ord.total_amount
       /\ ord.status = "completed" =>
            /\ EntrySum(o, "order_sale_release") = ord.seller_net_amount
            /\ EntrySum(o, "order_fee_capture") = ord.platform_fee_amount
            /\ EntrySum(o, "order_sale_release") + EntrySum(o, "order_fee_capture")
                 = ord.total_amount
       /\ ord.status # "completed" => OrderEntries(o, "order_sale_release") = {}

\* an order paid by its buyer was confirmed and released with a fee
C19_Witness ==
  \E p \in Procs, o \in 1..Len(orders) :
    /\ Finished(p, "confirm_delivery", "ok") /\ txn[p].id = o
    /\ \E i \in OrderEntries(o, "order_payment") : ledger[i].created_by = orders[o].buyer
    /\ EntrySum(o, "order_sale_release") > 0
    /\ EntrySum(o, "order_fee_capture") > 0
    /\ EntrySum(o, "order_sale_release") + EntrySum(o, "order_fee_capture") = EntrySum(o, "order_sale_hold")

\* ---------------------------------------------------------------------
\* C20: for every price from 0 to MaxPrice and quantity from 1 to MaxQty the
\* stored order has total_amount = price x quantity, platform_fee_amount =
\* total x 5 / 100 rounded half-up to a whole paisa (the hundredth of the
\* currency unit), 0 <= fee <= total, and seller_net_amount = total - fee,
\* so fee + net = total.
C20_FeeArithmetic ==
  \A o \in 1..Len(orders) :
    LET total == orders[o].total_amount
        fee == orders[o].platform_fee_amount
        net == orders[o].seller_net_amount
    IN /\ total = orders[o].unit_price * orders[o].quantity
       /\ 100 * fee <= PLATFORM_FEE_PERCENT * total + 50
       /\ PLATFORM_FEE_PERCENT * total + 50 < 100 * fee + 100
       /\ 0 <= fee /\ fee <= total
       /\ net = total - fee
       /\ fee + net = total

\* an order whose exact fee ends in half a paisa was stored with the fee rounded up
C20_Witness ==
  \E p \in CalcProcs, o \in 1..Len(orders) :
    /\ Finished(p, "create_order", "ok")
    /\ orders[o].unit_price = txn[p].id /\ orders[o].quantity = txn[p].arg
    /\ orders[o].quantity > 1
    /\ (PLATFORM_FEE_PERCENT * orders[o].total_amount) % 100 = 50
    /\ 100 * orders[o].platform_fee_amount = PLATFORM_FEE_PERCENT * orders[o].total_amount + 50
    /\ orders[o].seller_net_amount > 0

\* ---------------------------------------------------------------------
\* process p makes a step of the operation op
StepOf(p, op) == txn'[p] # txn[p] /\ txn'[p].op = op

C21_MarkDeliveredStep ==
  \A p \in Procs : StepOf(p, "mark_delivered") =>
    LET o == txn'[p].id
        actor == txn'[p].actor
    IN /\ txn'[p].pc = "done"
       /\ txn'[p].res \in {"ok", "OrderError"}
       /\ txn'[p].res = "ok" <=>
            (actor = orders[o].seller /\ orders[o].status = "pending_delivery")
       /\ txn'[p].res = "ok" =>
            /\ orders'[o].status = "delivered"
            /\ orders'[o].delivered_at = now
            /\ orders'[o].auto_release_at = orders'[o].delivered_at + 72
            /\ orders' = [orders EXCEPT ![o].status = "delivered",
                                         ![o].delivered_at = orders'[o].delivered_at,
                                         ![o].auto_release_at = orders'[o].auto_release_at]
       /\ txn'[p].res = "OrderError" => orders' = orders
       /\ UNCHANGED <<wallet, ledger, listing, disputes, tickets, requests>>

\* C21: mark_delivered succeeds exactly when the actor is the order's seller
\* and the order is PENDING_DELIVERY; it then sets status DELIVERED,
\* delivered_at = now and auto_release_at = delivered_at + 72 hours and
\* nothing else; otherwise it fails with OrderError and no row changes.
C21_MarkDelivered == [][C21_MarkDeliveredStep]_vars

\* the seller marked the order delivered; a second call by the seller and
\* a call by the buyer were refused
C21_Witness ==
  \E p, q \in Procs :
    /\ Finished(p, "mark_delivered", "OrderError")
    /\ orders[txn[p].id].status = "delivered"
    /\ orders[txn[p].id].auto_release_at = orders[txn[p].id].delivered_at + AUTO_RELEASE_HOURS
    /\ Finished(q, "mark_delivered", "OrderError")
    /\ txn[p].actor = orders[txn[p].id].seller
    /\ txn[q].actor = orders[txn[q].id].buyer

\* ---------------------------------------------------------------------
\* process p ends its call of op with result res in this step
Ends(p, op, res) ==
  txn[p].pc # "done" /\ txn'[p].pc = "done" /\ txn'[p].op = op /\ txn'[p].res = res

C22_ConfirmStep ==
  \A p \in Procs :
    /\ Ends(p, "confirm_delivery", "ok") =>
         LET o == txn'[p].id
         IN /\ txn'[p].actor = orders[o].buyer
            /\ orders[o].status \in {"delivered", "disputed"}
            /\ orders[o].buyer_confirmed_at = NULL
            /\ orders'[o].status = "completed"
            /\ orders'[o].completed_at = now
            /\ orders'[o].buyer_confirmed_at = now
            /\ wallet' = ReleaseRows(o, "none", TRUE, "").wallet
    /\ (StepOf(p, "confirm_delivery") /\ txn'[p].actor # orders[txn'[p].id].buyer) =>
         /\ txn[p].pc = "idle"
         /\ txn'[p].pc = "done" /\ txn'[p].res = "OrderError"
         /\ UNCHANGED dbvars
    /\ (StepOf(p, "confirm_delivery") /\ txn'[p].pc = "done" /\ txn'[p].res # "ok") =>
         UNCHANGED dbvars
    /\ \A op \in {"admin_release", "seller_win"} : Ends(p, op, "ok") =>
         /\ orders'[txn'[p].id].status = "completed"
         /\ orders'[txn'[p].id].buyer_confirmed_at = NULL
    /\ SweepStep(p) => \A o \in Completes : orders'[o].buyer_confirmed_at = NULL

\* only a buyer's confirmation stamps buyer_confirmed_at
C22_StampedByBuyer ==
  \A o \in 1..Len(orders) :
    orders[o].buyer_confirmed_at # NULL =>
      /\ orders[o].status = "completed"
      /\ \E i \in OrderEntries(o, "order_sale_release") : ledger[i].created_by = orders[o].buyer

C23_OpenDisputeStep ==
  \A p \in Procs : StepOf(p, "open_dispute") =>
    LET o == txn'[p].id
        actor == txn'[p].actor
    IN /\ txn'[p].pc = "done"
       /\ txn'[p].res \in {"ok", "OrderError"}
       /\ txn'[p].res = "ok" <=>
            /\ actor = orders[o].buyer
            /\ orders[o].status = "delivered"
            /\ disputes[o].status # "open"
       /\ txn'[p].res = "ok" =>
            /\ disputes[o].status = "none"
            /\ orders' = [orders EXCEPT ![o].status = "disputed"]
            /\ disputes'[o].status = "open"
            /\ \A o2 \in OrderIds \ {o} : disputes'[o2] = disputes[o2]
       /\ txn'[p].res = "OrderError" => UNCHANGED <<orders, disputes>>
       /\ UNCHANGED <<wallet, ledger, listing, tickets, requests>>

\* two finished open_dispute calls on one order have not both succeeded
C23_OneWinner ==
  \A p, q \in Procs :
    (p # q /\ Finished(p, "open_dispute", "ok") /\ Finished(q, "open_dispute", "ok"))
      => txn[p].id # txn[q].id

\* C23: open_dispute succeeds exactly when the actor is the order's buyer,
\* the order is DELIVERED and no dispute is open; it then sets the order
\* DISPUTED with an OPEN dispute and changes no balance; every success finds
\* no Dispute row for the order and creates its only one, and of two
\* open_dispute calls on one order at most one succeeds.
C23_OpenDispute == []C23_OneWinner /\ [][C23_OpenDisputeStep]_vars

\* the buyer called open_dispute twice at once: one call opened the dispute,
\* the other was refused
C23_Witness ==
  \E p, q \in Procs :
    /\ Finished(p, "open_dispute", "ok")
    /\ Finished(q, "open_dispute", "OrderError")
    /\ txn[p].id = txn[q].id
    /\ txn[q].actor = orders[txn[q].id].buyer
    /\ orders[txn[p].id].status = "disputed"
    /\ disputes[txn[p].id].status = "open"

\* ---------------------------------------------------------------------
\* C24: when an order's Dispute is RESOLVED and the order is still DISPUTED,
\* an open_dispute call by the buyer succeeds and reactivates the Dispute row:
\* status OPEN, resolution_note, resolved_by and resolved_at cleared.
C24_ResolvedCanBeReopened ==
  [][\A p \in Procs :
       (/\ StepOf(p, "open_dispute")
        /\ txn'[p].actor = orders[txn'[p].id].buyer
        /\ orders[txn'[p].id].status = "disputed"
        /\ disputes[txn'[p].id].status = "resolved")
       => /\ txn'[p].res = "ok"
          /\ orders'[txn'[p].id].status = "disputed"
          /\ disputes'[txn'[p].id] = [status |-> "open", resolution_note |-> "",
                                      resolved_by |-> "none", resolved_at |-> NULL]]_vars

\* ---------------------------------------------------------------------
ResolveCalls == {"seller_win", "buyer_refund"}

C25_ResolveStep ==
  \A p \in Procs :
    /\ Ends(p, "seller_win", "ok") =>
         /\ txn[p].snap = "open"
         /\ orders[txn[p].id].status = "disputed"
         /\ orders'[txn[p].id].status = "completed"
         /\ disputes'[txn[p].id].status = "resolved"
    /\ Ends(p, "buyer_refund", "ok") =>
         /\ txn[p].snap = "open"
         /\ orders[txn[p].id].status = "disputed"
         /\ orders'[txn[p].id].status = "refunded"
         /\ disputes'[txn[p].id].status = "resolved"
    /\ \A op \in ResolveCalls :
         /\ (StepOf(p, op) /\ txn[p].pc = "idle") =>
              (txn'[p].snap = disputes[txn'[p].id].status /\ UNCHANGED dbvars)
         /\ (StepOf(p, op) /\ txn[p].pc = "rd_check" /\ txn[p].snap = "resolved") =>
              (txn'[p].pc = "done" /\ txn'[p].res = "OrderError" /\ UNCHANGED dbvars)
         /\ (StepOf(p, op) /\ txn'[p].pc = "done" /\ txn'[p].res # "ok") =>
              UNCHANGED dbvars

\* of the resolutions of one dispute at most one took effect, and the order's
\* payment left the seller's held balance at most once
C25_OneOutcome ==
  /\ \A p, q \in Procs :
       (/\ p # q
        /\ txn[p].pc = "done" /\ txn[p].op \in ResolveCalls /\ txn[p].res = "ok"
        /\ txn[q].pc = "done" /\ txn[q].op \in ResolveCalls /\ txn[q].res = "ok")
       => txn[p].id # txn[q].id
  /\ \A o \in 1..Len(orders) :
       /\ Cardinality(OrderEntries(o, "order_sale_release")) +
            Cardinality({i \in OrderEntries(o, "order_refund") : ledger[i].held_delta < 0}) <= 1
       /\ ~(OrderEntries(o, "order_sale_release") # {} /\ OrderEntries(o, "order_refund") # {})

\* C25: resolve_dispute_seller_win succeeds only with a dispute read as OPEN
\* and drives the order from DISPUTED to COMPLETED, resolve_dispute_buyer_refund
\* likewise to REFUNDED, both leaving the dispute RESOLVED; with a dispute read
\* as RESOLVED both fail with OrderError and no row changes; of two
\* resolutions of one dispute, each started from a dispute object read while
\* it was OPEN, at most one takes effect and the funds move once.
C25_DisputeResolution == []C25_OneOutcome /\ [][C25_ResolveStep]_vars

\* two reviewers read the dispute while OPEN; the seller-win took effect and
\* the buyer-refund was refused
C25_Witness ==
  \E p, q \in Procs :
    /\ Finished(p, "seller_win", "ok")
    /\ Finished(q, "buyer_refund", "OrderError")
    /\ txn[p].id = txn[q].id
    /\ txn[p].snap = "open" /\ txn[q].snap = "open"
    /\ orders[txn[p].id].status = "completed"
    /\ disputes[txn[p].id].status = "resolved"
    /\ Cardinality(OrderEntries(txn[p].id, "order_refund")) = 0

\* ---------------------------------------------------------------------
\* what the open (PENDING or APPROVED) withdrawal requests of user u amount to
Reserved(u) ==
  SumSeq([k \in 1..Len(requests) |->
            IF requests[k].user = u /\ requests[k].status \in {"pending", "approved"}
            THEN requests[k].amount ELSE 0],
         Len(requests))

C26_ReserveStep ==
  \A p \in Procs : StepOf(p, "reserve_withdrawal") =>
    LET u == txn'[p].actor
        amount == txn'[p].arg
    IN /\ txn'[p].pc = "done"
       /\ txn'[p].res \in {"ok", "WalletError"}
       /\ txn'[p].res = "ok" <=>
            /\ amount > 0
            /\ txn'[p].snap = "payout_ok"
            /\ wallet[u].available_balance >= amount
       /\ txn'[p].res = "ok" =>
            /\ requests' = Append(requests, [user |-> u, amount |-> amount, status |-> "pending"])
            /\ txn'[p].id = Len(requests')
            /\ wallet'[u].available_balance = wallet[u].available_balance - amount
            /\ wallet'[u].held_balance = wallet[u].held_balance + amount
            /\ wallet'[u].available_balance + wallet'[u].held_balance =
                 wallet[u].available_balance + wallet[u].held_balance
            /\ \A v \in Users \ {u} : wallet'[v] = wallet[v]
            /\ Len(ledger') = Len(ledger) + 1
            /\ ledger'[Len(ledger')].entry_type = "withdrawal_hold"
            /\ ledger'[Len(ledger')].reference_id = Len(requests')
       /\ txn'[p].res = "WalletError" => UNCHANGED <<wallet, ledger, requests>>
       /\ UNCHANGED <<listing, orders, disputes, tickets>>

\* what a user's open requests reserve is in the user's held balance, and the
\* available balance they were taken from is not overdrawn
C26_NeverOverReserved ==
  \A u \in Users :
    /\ Reserved(u) <= wallet[u].held_balance
    /\ wallet[u].available_balance >= 0

\* C26: reserve_withdrawal succeeds exactly when amount > 0, the payout
\* fields are valid and available >= amount; it then creates a PENDING request
\* and moves amount from available to held in the same step (available + held
\* unchanged); otherwise it fails with WalletError, creates no request and
\* changes no balance; whatever the interleaving, the open requests of a user
\* never reserve more than the held balance taken from the user's available
\* balance.
C26_ReserveWithdrawal == []C26_NeverOverReserved /\ [][C26_ReserveStep]_vars

\* two reservations of 10 by a user with 10 available ran at once: one
\* reserved the funds, the other was refused for lack of balance
C26_Witness ==
  \E p, q \in Procs :
    /\ Finished(p, "reserve_withdrawal", "ok")
    /\ Finished(q, "reserve_withdrawal", "WalletError")
    /\ txn[p].actor = txn[q].actor
    /\ txn[q].arg > 0 /\ txn[q].snap = "payout_ok"
    /\ requests[txn[p].id].status = "pending"
    /\ wallet[txn[p].actor].available_balance = 0
    /\ wallet[txn[p].actor].held_balance = txn[p].arg
    /\ Len(requests) = 1

\* ---------------------------------------------------------------------
\* the status changes of withdrawal requests in this step
RequestChanges ==
  {<<requests[k].status, requests'[k].status>> :
     k \in {j \in 1..Len(requests) : requests'[j].status # requests[j].status}}

RequestsKept ==
  /\ Len(requests') >= Len(requests)
  /\ \A k \in (Len(requests) + 1)..Len(requests') : requests'[k].status = "pending"

\* C27 as stated: a withdrawal request's status changes only along
\* pending -> approved, approved -> paid, pending -> rejected and
\* approved -> rejected; pay_withdrawal succeeds only on an approved request.
C27_AsStated ==
  [][/\ RequestsKept
     /\ RequestChanges \subseteq {<<"pending", "approved">>, <<"approved", "paid">>,
                                  <<"pending", "rejected">>, <<"approved", "rejected">>}
     /\ \A p \in Procs : Ends(p, "pay_withdrawal", "ok") =>
          requests[txn'[p].id].status = "approved"]_vars

\* C27 amended: a withdrawal request is created PENDING and its status changes
\* only along pending -> approved, pending -> paid, approved -> paid,
\* pending -> rejected and approved -> rejected: pay_withdrawal succeeds only
\* on a pending or approved request and makes it PAID, approve_withdrawal
\* only on a pending one and makes it APPROVED, reject_withdrawal only on a
\* pending or approved one and makes it REJECTED.
C27_Transitions ==
  [][/\ RequestsKept
     /\ RequestChanges \subseteq {<<"pending", "approved">>, <<"pending", "paid">>,
                                  <<"approved", "paid">>,
                                  <<"pending", "rejected">>, <<"approved", "rejected">>}
     /\ \A p \in Procs :
          /\ Ends(p, "pay_withdrawal", "ok") =>
               /\ requests[txn'[p].id].status \in {"pending", "approved"}
               /\ requests'[txn'[p].id].status = "paid"
          /\ Ends(p, "approve_withdrawal", "ok") =>
               /\ requests[txn'[p].id].status = "pending"
               /\ requests'[txn'[p].id].status = "approved"
          /\ Ends(p, "reject_withdrawal", "ok") =>
               /\ requests[txn'[p].id].status \in {"pending", "approved"}
               /\ requests'[txn'[p].id].status = "rejected"
          /\ \A op \in {"pay_withdrawal", "approve_withdrawal", "reject_withdrawal"} :
               Ends(p, op, "WalletError") => requests' = requests]_vars

\* a request went from PENDING to PAID, and a call approving it was refused
C27_Witness ==
  \E p, q \in Procs :
    /\ Finished(p, "pay_withdrawal", "ok")
    /\ txn[p].snap = "pending"
    /\ Finished(q, "approve_withdrawal", "WalletError")
    /\ txn[p].id = txn[q].id
    /\ requests[txn[p].id].status = "paid"
    /\ Len(ledger) = Len(Funded.ledger) + 2

\* ---------------------------------------------------------------------
\* ledger entries of one type that refer to withdrawal request k
RequestEntries(k, entry_type) ==
  {i \in 1..Len(ledger) :
     /\ ledger[i].reference_type = "withdrawal_request" /\ ledger[i].reference_id = k
     /\ ledger[i].entry_type = entry_type}

\* what the entries of request k have added to the total balance of its user
RequestNet(k) ==
  SumSeq([i \in 1..Len(ledger) |->
            IF ledger[i].reference_type = "withdrawal_request" /\ ledger[i].reference_id = k
            THEN ledger[i].available_delta + ledger[i].held_delta ELSE 0],
         Len(ledger))

C28_PayStep ==
  \A p \in Procs : Ends(p, "pay_withdrawal", "ok") =>
    LET k == txn'[p].id
        u == requests[k].user
        amount == requests[k].amount
    IN /\ txn'[p].snap = requests[k].status
       /\ requests' = [requests EXCEPT ![k].status = "paid"]
       /\ wallet'[u].held_balance = wallet[u].held_balance - amount
       /\ wallet'[u].available_balance = wallet[u].available_balance
       /\ \A v \in Users \ {u} : wallet'[v] = wallet[v]
       /\ Len(ledger') = Len(ledger) + 1
       /\ ledger'[Len(ledger')].entry_type = "withdrawal_paid"
       /\ ledger'[Len(ledger')].amount = amount
       /\ RequestNet(k) = 0

\* a paid request has taken its amount out of its user's total balance
C28_PaidLeavesWallet ==
  \A k \in 1..Len(requests) :
    requests[k].status = "paid" =>
      /\ RequestNet(k) = 0 - requests[k].amount
      /\ Cardinality(RequestEntries(k, "withdrawal_hold")) = 1
      /\ Cardinality(RequestEntries(k, "withdrawal_paid")) = 1

\* C28: a successful pay_withdrawal, on a request still PENDING as on an
\* approved one, sets the request PAID, decreases the user's held balance by
\* amount and leaves available unchanged; the reservation had moved amount
\* from available to held, so the request's entries leave the user's total
\* balance lower by amount than before the reservation.
C28_PayReserved == []C28_PaidLeavesWallet /\ [][C28_PayStep]_vars

\* a request was paid while PENDING, with no approval: the 10 reserved out
\* of the user's 10 are gone
C28_Witness ==
  \E p \in Procs :
    /\ Finished(p, "pay_withdrawal", "ok")
    /\ txn[p].snap = "pending"
    /\ requests[txn[p].id].status = "paid"
    /\ requests[txn[p].id].user = "buyer2"
    /\ wallet["buyer2"].available_balance = 0
    /\ wallet["buyer2"].held_balance = 0
    /\ RequestNet(txn[p].id) = 0 - 10

\* ---------------------------------------------------------------------
ConsumeCalls == {"reject_withdrawal", "pay_withdrawal"}

C29_ConsumeStep ==
  /\ \A p \in Procs : Ends(p, "reject_withdrawal", "ok") =>
       LET k == txn'[p].id
           u == requests[k].user
           amount == requests[k].amount
       IN /\ requests[k].status \in {"pending", "approved"}
          /\ requests' = [requests EXCEPT ![k].status = "rejected"]
          /\ wallet'[u].held_balance = wallet[u].held_balance - amount
          /\ wallet'[u].available_balance = wallet[u].available_balance + amount
          /\ \A v \in Users \ {u} : wallet'[v] = wallet[v]
  /\ \A p \in Procs : Ends(p, "pay_withdrawal", "ok") =>
       LET k == txn'[p].id
           u == requests[k].user
           amount == requests[k].amount
       IN /\ requests[k].status \in {"pending", "approved"}
          /\ wallet'[u] = [wallet[u] EXCEPT !.held_balance = @ - amount]
  /\ \A p \in Procs, op \in ConsumeCalls :
       Ends(p, op, "WalletError") => UNCHANGED dbvars
  /\ \A k \in 1..Len(requests) :
       requests[k].status \in {"rejected", "paid"} =>
         /\ requests'[k] = requests[k]
         /\ RequestEntries(k, "withdrawal_release") \subseteq 1..Len(ledger')
         /\ \A i \in (Len(ledger) + 1)..Len(ledger') :
              ~(ledger'[i].reference_type = "withdrawal_request" /\ ledger'[i].reference_id = k)

C29_ConsumedOnce ==
  /\ \A k \in 1..Len(requests) :
       LET released == Cardinality(RequestEntries(k, "withdrawal_release"))
           paid == Cardinality(RequestEntries(k, "withdrawal_paid"))
       IN /\ released + paid <= 1
          /\ released = 1 <=> requests[k].status = "rejected"
          /\ paid = 1 <=> requests[k].status = "paid"
  /\ \A p, q \in Procs :
       (/\ p # q
        /\ txn[p].pc = "done" /\ txn[p].op \in ConsumeCalls /\ txn[p].res = "ok"
        /\ txn[q].pc = "done" /\ txn[q].op \in ConsumeCalls /\ txn[q].res = "ok")
       => txn[p].id # txn[q].id

\* C29: reject_withdrawal returns amount from held to available and
\* pay_withdrawal removes amount from held; a REJECTED or PAID request never
\* changes again and gets no further ledger entry; whatever the interleaving
\* of reject_withdrawal and pay_withdrawal calls on one request, at most one
\* succeeds: a request has at most one withdrawal_release or withdrawal_paid
\* entry, never both.
C29_ReservedFundsConsumedOnce == []C29_ConsumedOnce /\ [][C29_ConsumeStep]_vars

\* a rejection and a payout of one request ran at once: the rejection
\* returned the funds, the payout waited for the request lock and was refused
C29_Witness ==
  \E p, q \in Procs :
    /\ Finished(p, "reject_withdrawal", "ok")
    /\ Finished(q, "pay_withdrawal", "WalletError")
    /\ txn[p].id = txn[q].id
    /\ txn[p].snap = "pending"
    /\ txn[q].snap = "rejected"
    /\ requests[txn[p].id].status = "rejected"
    /\ RequestNet(txn[p].id) = 0
    /\ wallet[requests[txn[p].id].user].held_balance = 0

\* ---------------------------------------------------------------------
\* the deposit_credit entries that refer to ticket k
TicketCredits(k) ==
  {i \in 1..Len(ledger) :
     /\ ledger[i].reference_type = "deposit_ticket" /\ ledger[i].reference_id = k
     /\ ledger[i].entry_type = "deposit_credit"}

C30_DepositStep ==
  /\ \A p \in Procs : Ends(p, "approve_deposit", "ok") =>
       LET k == txn'[p].id
           u == tickets[k].user
       IN /\ tickets[k].status = "pending"
          /\ tickets' = [tickets EXCEPT ![k].status = "approved"]
          /\ wallet'[u] = [wallet[u] EXCEPT !.available_balance = @ + tickets[k].amount]
          /\ \A v \in Users \ {u} : wallet'[v] = wallet[v]
          /\ Len(ledger') = Len(ledger) + 1
  /\ \A p \in Procs : Ends(p, "reject_deposit", "ok") =>
       LET k == txn'[p].id
       IN /\ tickets[k].status = "pending"
          /\ tickets' = [tickets EXCEPT ![k].status = "rejected"]
          /\ UNCHANGED <<wallet, ledger>>
  /\ \A p \in Procs : StepOf(p, "reject_deposit") =>
       /\ txn'[p].pc = "done"
       /\ txn'[p].res = "ok" <=> tickets[txn'[p].id].status = "pending"
  /\ \A p \in Procs, op \in {"approve_deposit", "reject_deposit"} :
       Ends(p, op, "WalletError") => UNCHANGED dbvars
  /\ \A k \in 1..Len(tickets) :
       tickets[k].status \in {"approved", "rejected"} => tickets'[k] = tickets[k]

C30_CreditedOnce ==
  \A k \in 1..Len(tickets) :
    /\ Cardinality(TicketCredits(k)) <= 1
    /\ TicketCredits(k) # {} <=> tickets[k].status = "approved"
    /\ \A i \in TicketCredits(k) :
         /\ ledger[i].wallet = tickets[k].user
         /\ ledger[i].available_delta = tickets[k].amount
         /\ ledger[i].held_delta = 0

\* C30: approve_deposit and reject_deposit succeed only on a PENDING ticket;
\* an APPROVED or REJECTED ticket never changes again; approval credits the
\* user's available balance by ticket.amount in the step that makes the
\* ticket APPROVED, rejection changes no balance; whatever the interleaving,
\* a ticket has at most one deposit_credit entry, and has one exactly when it
\* is APPROVED.
C30_DepositGate == []C30_CreditedOnce /\ [][C30_DepositStep]_vars

\* an approval and a rejection of one ticket ran at once: the approval
\* credited the wallet, the rejection was refused
C30_Witness ==
  \E p, q \in Procs :
    /\ Finished(p, "approve_deposit", "ok")
    /\ Finished(q, "reject_deposit", "WalletError")
    /\ txn[p].id = txn[q].id
    /\ tickets[txn[p].id].status = "approved"
    /\ wallet[tickets[txn[p].id].user].available_balance = tickets[txn[p].id].amount
    /\ Cardinality(TicketCredits(txn[p].id)) = 1

\* ---------------------------------------------------------------------
\* C31: deadlock freedom: whatever operations run at once, also when one
\* user's wallet is the buyer wallet of one and the seller wallet of another,
\* no state is reached in which operations wait on each other's row locks in
\* a cycle.
C31_NoLockWaitCycle == \A p \in Procs : ~InWaitCycle(p)

\* --------------------------------------------- the WalletAccount table on its own
\* get_or_create_wallet and the post_save receiver, with the WalletAccount
\* table kept row by row: in this specification `wallet` is the set of rows
\* [pk, user, available_balance, held_balance, by], where `by` names the
\* process whose open transaction inserted the row ("none" once committed).
\* WalletAccount.user is a OneToOneField, so the table has a unique index on
\* user: an INSERT that meets a committed row of the same user raises
\* IntegrityError, one that meets an uncommitted row waits for that
\* transaction to end.  Reads see committed rows and the reader's own rows.
\* txn[p].actor is the user, txn[p].snap the caller's transaction mode,
\* txn[p].id the pk of the row the call returned and txn[p].count the number
\* of IntegrityErrors the call caught.
AccountUsers == Users \cup Staff

\* users whose User row has just been saved and whose post_save receiver has
\* not run yet
NewUsers == {"buyer2", "admin"}

AccountRow(pk, user, available_balance, held_balance, by) ==
  [pk |-> pk, user |-> user, available_balance |-> available_balance,
   held_balance |-> held_balance, by |-> by]

\* the rows a read of process p sees for a user
VisibleRows(p, user) == {r \in wallet : r.user = user /\ r.by \in {"none", p}}

NextPk == 1 + Cardinality(wallet)

FreshPk == CHOOSE k \in 1..NextPk : \A r \in wallet : r.pk # k

InitAccounts ==
  /\ scn = "accounts"
  /\ wallet = {AccountRow(1, "seller", Paid.wallet["seller"].available_balance,
                          Paid.wallet["seller"].held_balance, "none"),
               AccountRow(2, "buyer", Paid.wallet["buyer"].available_balance,
                          Paid.wallet["buyer"].held_balance, "none")}
  /\ ledger = Paid.ledger
  /\ listing = [l \in Listings |-> [stock |-> InitStock, status |-> "active"]]
  /\ orders = <<>>
  /\ tickets = <<>>
  /\ disputes = [o \in OrderIds |-> NoDispute]
  /\ requests = <<>>
  /\ now = 0
  /\ \E created \in [Procs -> NewUsers \cup {"none"}] :
       /\ \A p, q \in Procs : (p # q /\ created[p] # "none") => created[p] # created[q]
       /\ \A u \in NewUsers : \E p \in Procs : created[p] = u
       /\ txn = [p \in Procs |->
                   IF created[p] = "none" THEN Idle
                   ELSE [Call("create_user", "user_saved", created[p], 0, 0)
                           EXCEPT !.snap = "autocommit"]]

\* QuerySet.get_or_create: the first get(user=user)
get_or_create_get(t, p) ==
  IF VisibleRows(p, t.actor) # {}
  THEN [Done(t, "ok") EXCEPT !.id = (CHOOSE r \in VisibleRows(p, t.actor) : TRUE).pk]
  ELSE [t EXCEPT !.pc = "goc_create"]

\* create_wallet_on_user_create: the receiver runs in the request that saved the
\* new user
create_wallet_on_user_create(p) ==
  /\ txn[p].pc = "user_saved"
  /\ txn' = [txn EXCEPT ![p] = get_or_create_get(txn[p], p)]
  /\ UNCHANGED <<dbvars, now, scn>>

\* get_or_create_wallet(user), called in autocommit (wallet and order views)
\* or inside the caller's transaction.atomic() block (the services)
get_or_create_wallet(p, user, mode) ==
  /\ scn = "accounts"
  /\ txn[p].pc = "idle"
  /\ txn' = [txn EXCEPT ![p] =
               get_or_create_get([Call("get_or_create_wallet", "goc_get", user, 0, 0)
                                    EXCEPT !.snap = mode], p)]
  /\ UNCHANGED <<dbvars, now, scn>>

\* a table without the unique index
user_conflicts_unchecked(p, user) == {}

\* the unique index on WalletAccount.user: the rows an INSERT of process p for
\* the user collides with
user_conflicts(p, user) == {r \in wallet : r.user = user /\ r.by # p}

\* QuerySet.get_or_create: create(user=user) after the get found nothing; on
\* IntegrityError the row is fetched again
get_or_create_create(p) ==
  /\ txn[p].pc = "goc_create"
  /\ \A r \in user_conflicts(p, txn[p].actor) : r.by = "none"
  /\ LET t == txn[p]
     IN IF user_conflicts(p, t.actor) # {}
        THEN /\ txn' = [txn EXCEPT ![p].pc = "goc_reget", ![p].count = 1]
             /\ UNCHANGED wallet
        ELSE /\ wallet' = wallet \cup
                    {AccountRow(FreshPk, t.actor, 0, 0,
                                IF t.snap = "atomic" THEN p ELSE "none")}
             /\ txn' = [txn EXCEPT ![p] = [Done(t, "ok") EXCEPT !.id = FreshPk]]
  /\ UNCHANGED <<ledger, listing, orders, disputes, tickets, requests, now, scn>>

\* QuerySet.get_or_create: the get(user=user) after IntegrityError
get_or_create_reget(p) ==
  /\ txn[p].pc = "goc_reget"
  /\ IF VisibleRows(p, txn[p].actor) # {}
     THEN txn' = [txn EXCEPT ![p] =
                    [Done(@, "ok") EXCEPT !.id = (CHOOSE r \in VisibleRows(p, txn[p].actor) : TRUE).pk]]
     ELSE txn' = [txn EXCEPT ![p] = Done(@, "DoesNotExist")]
  /\ UNCHANGED <<dbvars, now, scn>>

\* the caller's transaction commits (at once in autocommit) and the request ends
accounts_commit(p) ==
  /\ scn = "accounts"
  /\ txn[p].pc = "done"
  /\ wallet' = {[r EXCEPT !.by = IF @ = p THEN "none" ELSE @] : r \in wallet}
  /\ txn' = [txn EXCEPT ![p] = Idle]
  /\ UNCHANGED <<ledger, listing, orders, disputes, tickets, requests, now, scn>>

\* the caller's transaction.atomic() block raises after the wallet was fetched
\* (create_order_from_listing's insufficient balance) and is rolled back
accounts_rollback(p) ==
  /\ scn = "accounts"
  /\ txn[p].pc = "done"
  /\ txn[p].snap = "atomic"
  /\ wallet' = {r \in wallet : r.by # p}
  /\ txn' = [txn EXCEPT ![p] = Idle]
  /\ UNCHANGED <<ledger, listing, orders, disputes, tickets, requests, now, scn>>

NextAccounts ==
  \/ \E p \in Procs : create_wallet_on_user_create(p)
  \/ \E p \in Procs, user \in AccountUsers, mode \in {"autocommit", "atomic"} :
       get_or_create_wallet(p, user, mode)
  \/ \E p \in Procs : get_or_create_create(p)
  \/ \E p \in Procs : get_or_create_reget(p)
  \/ \E p \in Procs : accounts_commit(p)
  \/ \E p \in Procs : accounts_rollback(p)

SpecAccounts == InitAccounts /\ [][NextAccounts]_vars

\* ---------------------------------------------------------------------
\* the rows of the WalletAccount table that belong to a user
AccountsOf(user) == {r \in wallet : r.user = user}

\* C32 (in every state): at most one WalletAccount row exists per user, and
\* a call that has returned holds the pk of that user's row.
C32_OneWalletPerUser ==
  /\ \A user \in AccountUsers : Cardinality(AccountsOf(user)) <= 1
  /\ \A p \in Procs :
       (txn[p].pc = "done" /\ txn[p].op \in {"get_or_create_wallet", "create_user"}) =>
         /\ txn[p].res = "ok"
         /\ \E r \in AccountsOf(txn[p].actor) : r.pk = txn[p].id

\* C32 (in every step of a call): a row that exists before and after the step
\* keeps its user and its balances, and a row the step adds has balances 0.
C32_BalancesKept ==
  \A p \in Procs :
    (StepOf(p, "get_or_create_wallet") \/ StepOf(p, "create_user")) =>
      \A r2 \in wallet' :
        IF \E r \in wallet : r.pk = r2.pk
        THEN \E r \in wallet :
               /\ r.pk = r2.pk /\ r.user = r2.user
               /\ r.available_balance = r2.available_balance
               /\ r.held_balance = r2.held_balance
        ELSE r2.available_balance = 0 /\ r2.held_balance = 0

\* C32: get_or_create_wallet is idempotent and race-safe: under any
\* interleaving of first-access calls for one user, the creation by the
\* post_save receiver included, at most one WalletAccount exists per user,
\* every call returns that wallet, and calls never change a wallet's balances.
C32_GetOrCreateWallet == []C32_OneWalletPerUser /\ [][C32_BalancesKept]_vars

\* the receiver and a first-access call for the same new user raced: the call
\* lost the INSERT, fetched the receiver's row, and both hold the same wallet
C32_Witness ==
  \E p, q \in Procs :
    /\ p # q
    /\ txn[p].pc = "done" /\ txn[p].op = "create_user"
    /\ txn[q].pc = "done" /\ txn[q].op = "get_or_create_wallet"
    /\ txn[q].count = 1
    /\ txn[q].actor = txn[p].actor
    /\ txn[q].id = txn[p].id
    /\ Cardinality(AccountsOf(txn[p].actor)) = 1
    /\ \E user \in AccountUsers : \E r \in AccountsOf(user) : r.available_balance > 0

\* ---------------------------------------------------------------------
\* the ledger entries of a wallet among the first n entries of a ledger
EntriesOf(led, u, n) == {i \in 1..n : led[i].wallet = u}

Last(S) == CHOOSE i \in S : \A j \in S : j <= i

\* the balances a wallet has after the first n entries of a ledger: the
\* snapshot of its latest entry, the initial balances 0 when it has none
SnapshotAt(led, u, n) ==
  IF EntriesOf(led, u, n) = {}
  THEN [available_balance |-> 0, held_balance |-> 0]
  ELSE [available_balance |-> led[Last(EntriesOf(led, u, n))].available_balance_after,
        held_balance |-> led[Last(EntriesOf(led, u, n))].held_balance_after]

\* C33 (in every state): each entry's snapshot is the wallet's balances
\* before the entry plus the entry's deltas, and each wallet's balances are
\* the snapshot of its latest entry, which is the sum of its entries' deltas.
C33_LedgerMatchesWallets ==
  /\ \A i \in 1..Len(ledger) :
       /\ ledger[i].available_balance_after =
            SnapshotAt(ledger, ledger[i].wallet, i - 1).available_balance + ledger[i].available_delta
       /\ ledger[i].held_balance_after =
            SnapshotAt(ledger, ledger[i].wallet, i - 1).held_balance + ledger[i].held_delta
  /\ \A u \in Users :
       /\ wallet[u] = SnapshotAt(ledger, u, Len(ledger))
       /\ wallet[u].available_balance =
            SumSeq([i \in 1..Len(ledger) |->
                      IF ledger[i].wallet = u THEN ledger[i].available_delta ELSE 0], Len(ledger))
       /\ wallet[u].held_balance =
            SumSeq([i \in 1..Len(ledger) |->
                      IF ledger[i].wallet = u THEN ledger[i].held_delta ELSE 0], Len(ledger))

\* C33 (in every step): the ledger only grows at its end, the entries it had
\* stay as they were, and a wallet whose balances change gets a new entry.
C33_AppendOnly ==
  /\ Len(ledger') >= Len(ledger)
  /\ SubSeq(ledger', 1, Len(ledger)) = ledger
  /\ \A u \in Users :
       wallet'[u] # wallet[u] =>
         \E i \in (Len(ledger) + 1)..Len(ledger') : ledger'[i].wallet = u

\* C33: the ledger is append-only and consistent with the wallets: every
\* balance change adds an entry whose *_balance_after equal the wallet's
\* balances right after the entry's deltas, existing entries are never
\* modified or removed, and in every reachable state each wallet's balances
\* equal the snapshot of its most recent entry (the sum of its entries'
\* deltas over initial balances 0).
C33_LedgerAppendOnly == []C33_LedgerMatchesWallets /\ [][C33_AppendOnly]_vars

\* an order was paid, released and its seller's proceeds reserved for a
\* withdrawal: the seller's wallet has several entries and non-zero balances
C33_Witness ==
  \E u \in Users :
    /\ Cardinality(EntriesOf(ledger, u, Len(ledger))) >= 3
    /\ wallet[u].held_balance > 0
    /\ \E i \in EntriesOf(ledger, u, Len(ledger)) : ledger[i].entry_type = "order_sale_release"
    /\ \E p \in Procs : txn[p].pc = "done" /\ txn[p].res = "ok"

\* ---------------------------------------------------------------------
\* the buyer and the seller of the order or purchase a call works on
PartiesOf(p) ==
  IF txn[p].op = "create_order"
  THEN [buyer |-> txn[p].actor, seller |-> ListingSeller[txn[p].id]]
  ELSE [buyer |-> orders[txn[p].id].buyer, seller |-> orders[txn[p].id].seller]

\* the place of a row lock of an order call in the order
\* listing -> buyer wallet -> seller wallet -> order -> dispute
LockRank(p, lock) ==
  CASE lock[1] = "listing" -> 0
    [] lock[1] = "wallet" /\ lock[2] = PartiesOf(p).buyer -> 1
    [] lock[1] = "wallet" -> 2
    [] lock[1] = "order" -> 3
    [] OTHER -> 4

\* the calls that lock rows of the order listing, wallets, order, dispute
OrderCallPcs == {"co_buyer", "co_seller", "rel_wallet", "sw_wallet", "rf_seller", "rf_buyer"}

\* C34: every operation acquires its row locks in the order listing -> buyer
\* wallet -> seller wallet -> order -> dispute: no call asks for a lock that
\* ranks earlier than one it already holds (no wallet lock after the order
\* row, no buyer wallet after the seller wallet).
C34_GlobalLockOrder ==
  \A p \in Procs :
    txn[p].pc \in OrderCallPcs =>
      \A held \in Holds(p), wanted \in Wants(p) :
        LockRank(p, held) <= LockRank(p, wanted)

\* ---------------------------------------------------------------------
\* C35: order status and dispute status stay in step: in every reachable
\* state an order is DISPUTED if and only if its Dispute row exists with
\* status OPEN.
C35_DisputedIffOpen ==
  \A o \in 1..Len(orders) :
    orders[o].status = "disputed" <=> disputes[o].status = "open"

\* ---------------------------------------------------------------------
\* C36: listing stock and status stay consistent: under any interleaving of
\* create_order with the seller's restock, pause and activate actions no
\* reachable state has a listing that is ACTIVE with stock 0.
C36_NoActiveEmptyListing ==
  \A l \in Listings : ~(listing[l].status = "active" /\ listing[l].stock = 0)

\* ---------------------------------------------------------------------
\* what the orders of seller u that are not yet settled amount to
Escrowed(u) ==
  SumSeq([o \in 1..Len(orders) |->
            IF orders[o].seller = u /\ orders[o].status \in RefundableStatuses
            THEN orders[o].total_amount ELSE 0],
         Len(orders))

\* C37 (in every state): each user's held_balance is the total_amount of the
\* user's orders as seller that are PENDING_DELIVERY, DELIVERED or DISPUTED
\* plus the amount of the user's PENDING or APPROVED withdrawal requests; so
\* a call that is about to make its held-balance check will pass it.
C37_HeldAccounted ==
  /\ \A u \in Users : wallet[u].held_balance = Escrowed(u) + Reserved(u)
  /\ \A p \in Procs :
       /\ txn[p].pc \in {"rel_wallet", "sw_wallet", "rf_seller", "rf_buyer"} =>
            wallet[orders[txn[p].id].seller].held_balance >= orders[txn[p].id].total_amount
       /\ txn[p].pc \in {"rw_wallet", "pw_wallet"} =>
            wallet[requests[txn[p].id].user].held_balance >= requests[txn[p].id].amount

\* C37 (in every step): no release, refund, rejection or payout fails at its
\* held-balance check, and the sweep skips no order at it.
C37_NoHeldFailure ==
  \A p \in Procs :
    /\ (txn[p].pc \in {"rel_wallet", "rf_buyer", "rw_wallet", "pw_wallet"} /\ txn'[p] # txn[p])
         => txn'[p].res # "WalletError"
    /\ (txn[p].pc = "sw_wallet" /\ txn'[p].pc = "sw_loop")
         => txn'[p].count = txn[p].count + 1

\* C37: starting from zero balances, in every reachable state each user's
\* held_balance equals the sum of total_amount over the user's orders as
\* seller that are PENDING_DELIVERY, DELIVERED or DISPUTED plus the sum of
\* amount over the user's pending or approved withdrawal requests;
\* consequently the insufficient-held-funds failures of release,
\* refund_order, reject_withdrawal and pay_withdrawal are unreachable.
C37_HeldBalanceAccounting == []C37_HeldAccounted /\ [][C37_NoHeldFailure]_vars

\* one withdrawal was paid out of the reserved funds while another request of
\* the same user still holds its reservation
C37_Witness ==
  \E p \in Procs :
    /\ Finished(p, "pay_withdrawal", "ok")
    /\ wallet[requests[txn[p].id].user].held_balance > 0
    /\ Reserved(requests[txn[p].id].user) = wallet[requests[txn[p].id].user].held_balance

\* ---------------------------------------------------------------------
\* C38: the CANCELLED status is unreachable: no sequence of create_order,
\* mark_delivered, confirm_delivery, admin release, auto-release,
\* open_dispute, refund_order and resolve_dispute_* puts an order in
\* CANCELLED, so every order in a terminal state is COMPLETED or REFUNDED.
C38_NeverCancelled ==
  \A o \in 1..Len(orders) :
    /\ orders[o].status # "cancelled"
    /\ orders[o].status \in Terminal => orders[o].status \in {"completed", "refunded"}

\* an order that was never delivered was called off by a refund: it is
\* REFUNDED, not CANCELLED
C38_Witness ==
  \E p \in Procs :
    /\ Finished(p, "refund_order", "ok")
    /\ orders[txn[p].id].delivered_at = NULL
    /\ orders[txn[p].id].status = "refunded"
    /\ \A o \in 1..Len(orders) : orders[o].status \in Terminal

\* ---------------------------------------------------------------------
\* C39: refund_order leaves the listing untouched: no step of a refund
\* changes the stock or the status of any listing, so the units of a refunded
\* order do not return to stock and a listing sold out by it stays SOLD_OUT.
C39_RefundKeepsListing ==
  [][\A p \in Procs :
       (StepOf(p, "refund_order") \/ StepOf(p, "buyer_refund")) => listing' = listing]_vars

\* the order that sold the listing out was refunded and the listing is still
\* SOLD_OUT with stock 0
C39_Witness ==
  \E p \in Procs :
    /\ Finished(p, "refund_order", "ok")
    /\ orders[txn[p].id].status = "refunded"
    /\ orders[txn[p].id].quantity >= 1
    /\ listing[orders[txn[p].id].listing] = [stock |-> 0, status |-> "sold_out"]

\* ---------------------------------------------------------------------
\* the users whose wallet a step changes or for whom it appends a ledger entry
Touched ==
  {u \in Users :
     \/ wallet'[u] # wallet[u]
     \/ \E i \in (Len(ledger) + 1)..Len(ledger') : ledger'[i].wallet = u}

\* C40: order operations touch only the wallets of the order's own parties:
\* create_order and refund_order change only the buyer's and the seller's
\* wallets, release (by the buyer, by an admin, for a dispute or by the sweep)
\* changes only the seller's wallet, and mark_delivered and open_dispute
\* change no wallet and append no ledger entry; the balances and the ledger
\* entries of every other user are unchanged.
C40_OnlyOwnParties ==
  [][\A p \in Procs :
       /\ StepOf(p, "create_order") =>
            Touched \subseteq {txn'[p].actor, ListingSeller[txn'[p].id]}
       /\ (StepOf(p, "refund_order") \/ StepOf(p, "buyer_refund")) =>
            Touched \subseteq {orders[txn'[p].id].buyer, orders[txn'[p].id].seller}
       /\ (StepOf(p, "confirm_delivery") \/ StepOf(p, "admin_release") \/ StepOf(p, "seller_win")) =>
            Touched \subseteq {orders[txn'[p].id].seller}
       /\ StepOf(p, "sweep") =>
            Touched \subseteq (IF txn[p].pc = "sw_wallet" THEN {orders[txn[p].id].seller} ELSE {})
       /\ (StepOf(p, "mark_delivered") \/ StepOf(p, "open_dispute")) =>
            (wallet' = wallet /\ ledger' = ledger)]_vars

\* the buyer confirmed delivery: the seller was paid out of the hold and the
\* buyer's wallet still holds what its payment left
C40_Witness ==
  \E p \in Procs :
    /\ Finished(p, "confirm_delivery", "ok")
    /\ orders[txn[p].id].status = "completed"
    /\ wallet[orders[txn[p].id].seller].available_balance = orders[txn[p].id].seller_net_amount
    /\ wallet[orders[txn[p].id].buyer] = Paid.wallet[orders[txn[p].id].buyer]
    /\ wallet[orders[txn[p].id].buyer].available_balance > 0

====
